---------------------------- MODULE Spec2Model ----------------------------
(***************************************************************************)
(* Model of the prompt-to-design engine of ml_pipeline/creative_director.py *)
(* (PromptAnalyzer, CreativeDirector, generate_creative_design).            *)
(*                                                                          *)
(* Text is modelled by TLA+ strings over the printable ASCII alphabet, so   *)
(* the non-ASCII alternatives of the source's patterns (the en and em dash, *)
(* the rupee sign) never occur in a modelled prompt.  Percent geometry is   *)
(* held exactly, in units of 1/Scale percent, where the source computes in  *)
(* binary floating point; every comparison the model makes on geometry has  *)
(* a margin far above one unit in the last place.                           *)
(***************************************************************************)
EXTENDS Integers, Sequences, FiniteSets, TLC

VARIABLES
    prompt,      \* CreativeDirector.prompt
    platform,    \* CreativeDirector.platform
    format,      \* CreativeDirector.format
    seed,        \* PromptAnalyzer.prompt_hash, the SHA-256 of the prompt
    hashKey,     \* per interpreter process: the key salting the built-in str hash
    run,         \* the call of generate_creative_design in progress
    pc,          \* the position of that call inside CreativeDirector.generate
    analysis,    \* CreativeDirector.analysis
    direction,   \* generate(): creative_direction
    colors,      \* generate(): colors
    layout,      \* generate(): layout
    copy,        \* generate(): copy
    elements,    \* generate(): elements
    canvas,      \* CreativeDirector.width, CreativeDirector.height
    blueprints,  \* the Blueprints returned so far, by call
    scenes,      \* what the blueprint_to_fabric calls on the last Blueprint returned
    rng,         \* premium_design_generator: the generator behind the random module
    tpc,         \* premium_design_generator: each thread's position in generate_premium_design
    tseed,       \* generate_premium_design: seed, by thread
    tshapes      \* generate_background_shapes: what each thread has drawn for shapes

\* the variables of premium_design_generator
premium == <<rng, tpc, tseed, tshapes>>

\* the variables of creative_director
director == <<prompt, platform, format, seed, hashKey, run, pc, analysis,
              direction, colors, layout, copy, elements, canvas, blueprints, scenes>>

vars == <<director, premium>>

(***************************************************************************)
(* Characters and strings.                                                  *)
(***************************************************************************)
UpperChars == "ABCDEFGHIJKLMNOPQRSTUVWXYZ"
LowerChars == "abcdefghijklmnopqrstuvwxyz"
DigitChars == "0123456789"

Ch(s, i) == IF i >= 1 /\ i <= Len(s) THEN SubSeq(s, i, i) ELSE ""

UpperSet == {Ch(UpperChars, i) : i \in 1..26}
LowerSet == {Ch(LowerChars, i) : i \in 1..26}
DigitSet == {Ch(DigitChars, i) : i \in 1..10}
AlphaSet == UpperSet \cup LowerSet
WordSet  == AlphaSet \cup DigitSet \cup {"_"}
SpaceSet == {" "}

\* Python's None, where the value is otherwise a string.
None == "<None>"

IndexIn(chars, c) == CHOOSE i \in 1..Len(chars) : Ch(chars, i) = c

\* str.lower() and str.upper() on one character
LowerCh(c) == IF c \in UpperSet THEN Ch(LowerChars, IndexIn(UpperChars, c)) ELSE c
UpperCh(c) == IF c \in LowerSet THEN Ch(UpperChars, IndexIn(LowerChars, c)) ELSE c

\* str.lower() and str.upper(), character by character (the string is halved
\* at each step to keep the recursion shallow)
RECURSIVE ToLower(_)
ToLower(s) ==
    IF Len(s) <= 1 THEN LowerCh(s)
    ELSE ToLower(SubSeq(s, 1, Len(s) \div 2)) \o ToLower(SubSeq(s, Len(s) \div 2 + 1, Len(s)))

RECURSIVE ToUpper(_)
ToUpper(s) ==
    IF Len(s) <= 1 THEN UpperCh(s)
    ELSE ToUpper(SubSeq(s, 1, Len(s) \div 2)) \o ToUpper(SubSeq(s, Len(s) \div 2 + 1, Len(s)))

\* str.capitalize(): first character upper-cased, the rest lower-cased
Capitalize(s) == IF s = "" THEN "" ELSE UpperCh(Ch(s, 1)) \o ToLower(SubSeq(s, 2, Len(s)))

\* needle in hay
Contains(hay, needle) ==
    \E i \in 1..(Len(hay) - Len(needle) + 1) : SubSeq(hay, i, i + Len(needle) - 1) = needle

\* hay[i:].startswith(needle), 1-based
StartsAt(hay, i, needle) ==
    /\ i >= 1
    /\ i + Len(needle) - 1 <= Len(hay)
    /\ SubSeq(hay, i, i + Len(needle) - 1) = needle

\* The end of the longest run of characters of class cls that starts at i
\* (i - 1 when the character at i is not in cls).
RunEnd(s, i, cls) ==
    CHOOSE e \in (i - 1)..Len(s) :
        /\ Ch(s, e + 1) \notin cls
        /\ \A j \in i..e : Ch(s, j) \in cls

\* The regex \b between positions i - 1 and i.
Boundary(s, i) == (Ch(s, i - 1) \in WordSet) # (Ch(s, i) \in WordSet)

\* int() of a string of decimal digits raises ValueError when the string is
\* longer than the interpreter's limit for the conversion (CPython: 4300 digits)
IntMaxStrDigits == 4300
IntRaises(s) == Len(s) > IntMaxStrDigits

\* int() of a string of decimal digits within the limit
RECURSIVE ParseInt(_)
ParseInt(s) ==
    IF s = "" THEN 0
    ELSE 10 * ParseInt(SubSeq(s, 1, Len(s) - 1)) + (IndexIn(DigitChars, Ch(s, Len(s))) - 1)

\* str.split(): the number of whitespace-separated words
WordCount(s) ==
    Cardinality({i \in 1..Len(s) : Ch(s, i) \notin SpaceSet /\ (i = 1 \/ Ch(s, i - 1) \in SpaceSet)})

Min(a, b) == IF a < b THEN a ELSE b
Max(a, b) == IF a > b THEN a ELSE b

\* sum(1 for w in words if w in text)
Hits(text, words) == Cardinality({i \in 1..Len(words) : Contains(text, words[i])})
AnyIn(text, words) == \E i \in 1..Len(words) : Contains(text, words[i])


SetMin(S) == CHOOSE x \in S : \A y \in S : x <= y
SetMax(S) == CHOOSE x \in S : \A y \in S : x >= y

(***************************************************************************)
(* PromptAnalyzer._extract_brand_name.  Each pattern is matched the way     *)
(* re.search matches it: at the leftmost start, greedy, backtracking.       *)
(* A PxEnd operator gives the end of group 1 for a match starting at i,     *)
(* or 0 when the pattern does not match there.                              *)
(***************************************************************************)
DashSet == {"-"}
BrandSuffixes == <<"shop", "store", "cafe", "brand", "studio", "gym", "salon",
                   "restaurant", "electronics", "fashion">>
FullMatchSuffixes == <<"shop", "store", "cafe", "brand">>

\* [first][rest]+ at i: the end of the longest match, 0 when there is none
WordEnd(s, i, first, rest) ==
    IF Ch(s, i) \in first /\ Ch(s, i + 1) \in rest THEN RunEnd(s, i + 1, rest) ELSE 0

\* \s+ after position e: the end of the run, 0 when there is no whitespace
SpacesEnd(s, e) == IF Ch(s, e + 1) \in SpaceSet THEN RunEnd(s, e + 1, SpaceSet) ELSE 0

\* \s*[-] after position e
DashAfter(s, e) == Ch(s, RunEnd(s, e + 1, SpaceSet) + 1) \in DashSet

\* ([A-Z][a-zA-Z]+\s+[A-Z][a-zA-Z]+)\s*[-]
P1End(s, i) ==
    LET e1 == WordEnd(s, i, UpperSet, AlphaSet)
        w1 == IF e1 > 0 THEN SpacesEnd(s, e1) ELSE 0
        e2 == IF w1 > 0 THEN WordEnd(s, w1 + 1, UpperSet, AlphaSet) ELSE 0
    IN  IF e2 > 0 /\ DashAfter(s, e2) THEN e2 ELSE 0

\* \s+(?:shop|store|...)\b after position e, ignoring case
SuffixAfter(s, pl, e) ==
    LET w == SpacesEnd(s, e)
    IN  /\ w > 0
        /\ \E k \in 1..Len(BrandSuffixes) :
              /\ StartsAt(pl, w + 1, BrandSuffixes[k])
              /\ Ch(s, w + 1 + Len(BrandSuffixes[k])) \notin WordSet

\* ([A-Z][a-zA-Z]+(?:\s+[A-Z][a-zA-Z]+)?)\s+(?:shop|store|...)\b, re.IGNORECASE
P2End(s, pl, i) ==
    LET e1 == WordEnd(s, i, AlphaSet, AlphaSet)
        w1 == IF e1 > 0 THEN SpacesEnd(s, e1) ELSE 0
        e2 == IF w1 > 0 THEN WordEnd(s, w1 + 1, AlphaSet, AlphaSet) ELSE 0
    IN  IF e2 > 0 /\ SuffixAfter(s, pl, e2) THEN e2
        ELSE IF e1 > 0 /\ SuffixAfter(s, pl, e1) THEN e1
        ELSE 0

\* \s*(?:[-]|shop|store|cafe|brand) after position e, ignoring case
FullTailAfter(s, pl, e) ==
    LET w == RunEnd(s, e + 1, SpaceSet)
    IN  \/ Ch(s, w + 1) \in DashSet
        \/ \E k \in 1..Len(FullMatchSuffixes) : StartsAt(pl, w + 1, FullMatchSuffixes[k])

\* ([A-Z][a-zA-Z]+\s+[A-Z][a-zA-Z]+)\s*(?:[-]|shop|store|cafe|brand), re.IGNORECASE:
\* the second word gives characters back until the tail matches
FullEnd(s, pl, i) ==
    LET e1 == WordEnd(s, i, AlphaSet, AlphaSet)
        w1 == IF e1 > 0 THEN SpacesEnd(s, e1) ELSE 0
        e2 == IF w1 > 0 THEN WordEnd(s, w1 + 1, AlphaSet, AlphaSet) ELSE 0
        E  == IF e2 > 0 THEN {e \in (w1 + 2)..e2 : FullTailAfter(s, pl, e)} ELSE {}
    IN  IF E = {} THEN 0 ELSE SetMax(E)

\* (?:named|called)\s+["']?([A-Z][a-zA-Z]+(?:\s+[A-Z][a-zA-Z]+)?): <<start, end>> of group 1
P3Group(s, i) ==
    LET k  == IF StartsAt(s, i, "named") THEN 5 ELSE IF StartsAt(s, i, "called") THEN 6 ELSE 0
        w  == IF k > 0 THEN SpacesEnd(s, i + k - 1) ELSE 0
        q  == IF w > 0 /\ Ch(s, w + 1) \in {"\"", "'"} THEN w + 1 ELSE w
        e1 == IF w > 0 THEN WordEnd(s, q + 1, UpperSet, AlphaSet) ELSE 0
        w1 == IF e1 > 0 THEN SpacesEnd(s, e1) ELSE 0
        e2 == IF w1 > 0 THEN WordEnd(s, w1 + 1, UpperSet, AlphaSet) ELSE 0
    IN  <<q + 1, IF e2 > 0 THEN e2 ELSE e1>>

\* ^([A-Z][a-zA-Z]+(?:\s+[A-Z][a-zA-Z]+)?)\s*[-]
P4End(s) ==
    LET e1 == WordEnd(s, 1, UpperSet, AlphaSet)
        w1 == IF e1 > 0 THEN SpacesEnd(s, e1) ELSE 0
        e2 == IF w1 > 0 THEN WordEnd(s, w1 + 1, UpperSet, AlphaSet) ELSE 0
    IN  IF e2 > 0 /\ DashAfter(s, e2) THEN e2
        ELSE IF e1 > 0 /\ DashAfter(s, e1) THEN e1
        ELSE 0

\* \b([A-Z][a-z]+(?:\s+[A-Z][a-z]+)?)\b
P5End(s, i) ==
    LET e1 == IF Boundary(s, i) THEN WordEnd(s, i, UpperSet, LowerSet) ELSE 0
        w1 == IF e1 > 0 THEN SpacesEnd(s, e1) ELSE 0
        e2 == IF w1 > 0 THEN WordEnd(s, w1 + 1, UpperSet, LowerSet) ELSE 0
    IN  IF e2 > 0 /\ Ch(s, e2 + 1) \notin WordSet THEN e2
        ELSE IF e1 > 0 /\ Ch(s, e1 + 1) \notin WordSet THEN e1
        ELSE 0

\* re.findall of pattern 5 from position from on: the matches left to right
RECURSIVE FindCaps(_, _)
FindCaps(s, from) ==
    LET I == {i \in from..Len(s) : P5End(s, i) > 0}
    IN  IF I = {} THEN <<>>
        ELSE LET i == SetMin(I)
             IN  <<SubSeq(s, i, P5End(s, i))>> \o FindCaps(s, P5End(s, i) + 1)

CommonCaps == {"The", "And", "For", "New", "Best", "Top", "Your", "Our", "Get", "Buy",
               "Shop", "Now", "Today", "Delhi", "Mumbai", "India", "Indian"}

\* PromptAnalyzer._extract_brand_name; pl is the lower-cased prompt, on which the
\* patterns compiled with re.IGNORECASE compare their literals
ExtractBrandName(s, pl) ==
    LET I1 == {i \in 1..Len(s) : P1End(s, i) > 0}
        I2 == {i \in 1..Len(s) : P2End(s, pl, i) > 0}
        IFull == {i \in 1..Len(s) : FullEnd(s, pl, i) > 0}
        I3 == {i \in 1..Len(s) : P3Group(s, i)[2] > 0}
        brands == SelectSeq(FindCaps(s, 1), LAMBDA c : c \notin CommonCaps /\ Len(c) > 2)
    IN  IF I1 # {} THEN SubSeq(s, SetMin(I1), P1End(s, SetMin(I1)))
        ELSE IF I2 # {} THEN
            IF IFull # {} THEN SubSeq(s, SetMin(IFull), FullEnd(s, pl, SetMin(IFull)))
            ELSE SubSeq(s, SetMin(I2), P2End(s, pl, SetMin(I2)))
        ELSE IF I3 # {} THEN SubSeq(s, P3Group(s, SetMin(I3))[1], P3Group(s, SetMin(I3))[2])
        ELSE IF P4End(s) > 0 THEN SubSeq(s, 1, P4End(s))
        ELSE IF brands # <<>> THEN brands[1]
        ELSE None

(***************************************************************************)
(* The keyword tables of PromptAnalyzer, in the source's (dict) order.      *)
(***************************************************************************)
BusinessIndicators == <<
    <<"retail_electronics", <<"mobile", "phone", "electronics", "gadget", "smartphone", "laptop", "computer">> >>,
    <<"retail_fashion", <<"fashion", "clothing", "apparel", "boutique", "dress", "wear", "style">> >>,
    <<"food_restaurant", <<"restaurant", "cafe", "coffee", "food", "kitchen", "dining", "eat", "menu">> >>,
    <<"food_delivery", <<"delivery", "order food", "takeaway", "takeout">> >>,
    <<"fitness_gym", <<"gym", "fitness", "workout", "training", "exercise", "muscle">> >>,
    <<"beauty_salon", <<"salon", "spa", "beauty", "skincare", "makeup", "cosmetic", "glow">> >>,
    <<"professional_service", <<"consulting", "agency", "service", "solution", "legal", "accounting">> >>,
    <<"tech_startup", <<"startup", "app", "software", "saas", "platform", "tech", "ai", "digital">> >>,
    <<"ecommerce", <<"online", "ecommerce", "e-commerce", "shop online", "buy online">> >>,
    <<"local_store", <<"store", "shop", "local", "near", "city", "town">> >>,
    <<"event", <<"event", "party", "concert", "festival", "wedding", "celebration">> >>,
    <<"education", <<"course", "class", "learn", "training", "academy", "school", "tutorial">> >>,
    <<"real_estate", <<"property", "real estate", "home", "house", "apartment", "rent">> >>,
    <<"travel", <<"travel", "trip", "vacation", "hotel", "flight", "tour", "destination">> >>,
    <<"healthcare", <<"clinic", "hospital", "doctor", "health", "medical", "pharmacy", "dental">> >> >>

\* a selection by frequency: the entry with the most keyword hits, the earlier on a tie
DetermineBusinessTypeByHits(pl) ==
    LET K == {k \in 1..Len(BusinessIndicators) : AnyIn(pl, BusinessIndicators[k][2])}
        best == SetMax({Hits(pl, BusinessIndicators[k][2]) : k \in K})
    IN  IF K = {} THEN "general_business"
        ELSE BusinessIndicators[SetMin({k \in K : Hits(pl, BusinessIndicators[k][2]) = best})][1]

\* PromptAnalyzer._determine_business_type: the first table entry with a keyword hit
DetermineBusinessType(pl) ==
    LET K == {k \in 1..Len(BusinessIndicators) : AnyIn(pl, BusinessIndicators[k][2])}
    IN  IF K = {} THEN "general_business" ELSE BusinessIndicators[SetMin(K)][1]

LargeIndicators == <<"chain", "franchise", "national", "international", "global", "brand", "launch", "mega">>
SmallIndicators == <<"local", "neighborhood", "family", "small", "your local", "trusted", "near you">>

\* PromptAnalyzer._determine_scale
DetermineScale(pl) ==
    IF AnyIn(pl, LargeIndicators) THEN "large"
    ELSE IF AnyIn(pl, SmallIndicators) THEN "small_local"
    ELSE "medium"

LocalityPrepositions == <<"in", "at", "near", "from">>
LocalityCommonWords == {"The", "Your", "Our", "Best", "New"}
IndianCities == <<"Mumbai", "Delhi", "Bangalore", "Chennai", "Kolkata", "Hyderabad", "Pune",
                  "Ahmedabad", "Jaipur", "Lucknow">>

\* (?:in|at|near|from)\s+([A-Z][a-z]+(?:\s+[A-Z][a-z]+)?) at i: <<start, end>> of group 1.
\* The alternation takes the first preposition after which the rest matches.
LocGroup(s, i) ==
    LET Try(k) ==
            LET w  == IF StartsAt(s, i, LocalityPrepositions[k])
                      THEN SpacesEnd(s, i + Len(LocalityPrepositions[k]) - 1) ELSE 0
                e1 == IF w > 0 THEN WordEnd(s, w + 1, UpperSet, LowerSet) ELSE 0
                w1 == IF e1 > 0 THEN SpacesEnd(s, e1) ELSE 0
                e2 == IF w1 > 0 THEN WordEnd(s, w1 + 1, UpperSet, LowerSet) ELSE 0
            IN  <<w + 1, IF e2 > 0 THEN e2 ELSE e1>>
        K == {k \in 1..Len(LocalityPrepositions) : Try(k)[2] > 0}
    IN  IF K = {} THEN <<0, 0>> ELSE Try(SetMin(K))

\* PromptAnalyzer._extract_locality
ExtractLocality(s, pl) ==
    LET I == {i \in 1..Len(s) : LocGroup(s, i)[2] > 0}
        place == IF I = {} THEN None
                 ELSE SubSeq(s, LocGroup(s, SetMin(I))[1], LocGroup(s, SetMin(I))[2])
        C == {k \in 1..Len(IndianCities) : Contains(pl, ToLower(IndianCities[k]))}
    IN  IF place # None /\ place \notin LocalityCommonWords THEN place
        ELSE IF C # {} THEN IndianCities[SetMin(C)]
        ELSE None

Emotions == <<
    <<"trust", <<"trusted", "reliable", "honest", "genuine", "authentic", "certified", "quality">> >>,
    <<"excitement", <<"exciting", "amazing", "incredible", "wow", "new", "launch", "introducing">> >>,
    <<"urgency", <<"urgent", "hurry", "limited", "now", "today", "flash", "last chance", "ending">> >>,
    <<"warmth", <<"warm", "welcome", "family", "home", "cozy", "friendly", "care">> >>,
    <<"prestige", <<"luxury", "premium", "exclusive", "elite", "vip", "high-end">> >>,
    <<"value", <<"affordable", "cheap", "budget", "save", "discount", "deal", "offer", "price">> >>,
    <<"professionalism", <<"professional", "expert", "specialist", "quality", "certified">> >>,
    <<"fun", <<"fun", "enjoy", "celebrate", "party", "happy", "joy">> >> >>

\* PromptAnalyzer._determine_emotion: max() keeps the first emotion of the highest score
DetermineEmotion(pl) ==
    LET score(k) == Hits(pl, Emotions[k][2])
        best == SetMax({score(k) : k \in 1..Len(Emotions)})
    IN  IF best > 0
        THEN Emotions[SetMin({k \in 1..Len(Emotions) : score(k) = best})][1]
        ELSE "neutral"

UrgentWords == <<"urgent", "now", "today", "limited", "hurry", "flash", "ending", "last",
                 "quick", "fast", "instant">>
\* PromptAnalyzer._determine_urgency
DetermineUrgency(pl) == Min(Hits(pl, UrgentWords) * 3, 10)

TrustContexts == <<"mobile", "electronics", "money", "finance", "health", "medical", "legal",
                   "real estate", "local", "store", "shop">>
\* PromptAnalyzer._needs_trust
NeedsTrust(pl) == AnyIn(pl, TrustContexts)

ExcitingWords == <<"new", "launch", "introducing", "amazing", "incredible", "exciting", "wow",
                   "revolutionary", "exclusive">>
\* PromptAnalyzer._determine_excitement
DetermineExcitement(pl) == Min(Hits(pl, ExcitingWords) * 2, 10)

OfferWords == <<"sale", "discount", "off", "offer", "deal", "save", "free", "promo", "coupon", "%">>
\* PromptAnalyzer._has_offer
HasOffer(pl) == AnyIn(pl, OfferWords)

(***************************************************************************)
(* PromptAnalyzer._extract_offer, on the lower-cased prompt.                *)
(***************************************************************************)
\* (\d+)\s*%\s*(?:off|discount)? at i: the end of group 1, 0 when no match
PctEnd(pl, i) ==
    LET e == IF Ch(pl, i) \in DigitSet THEN RunEnd(pl, i, DigitSet) ELSE 0
    IN  IF e > 0 /\ Ch(pl, RunEnd(pl, e + 1, SpaceSet) + 1) = "%" THEN e ELSE 0

\* (?:rs\.?|inr)\s*(\d+)\s*(?:off|discount) at i: <<start, end>> of group 1
FlatGroup(pl, i) ==
    LET k  == IF StartsAt(pl, i, "rs.") THEN 3 ELSE IF StartsAt(pl, i, "rs") THEN 2
              ELSE IF StartsAt(pl, i, "inr") THEN 3 ELSE 0
        d  == IF k > 0 THEN RunEnd(pl, i + k, SpaceSet) + 1 ELSE 0
        e  == IF d > 0 /\ Ch(pl, d) \in DigitSet THEN RunEnd(pl, d, DigitSet) ELSE 0
        t  == IF e > 0 THEN RunEnd(pl, e + 1, SpaceSet) + 1 ELSE 0
    IN  IF e > 0 /\ (StartsAt(pl, t, "off") \/ StartsAt(pl, t, "discount")) THEN <<d, e>>
        ELSE <<0, 0>>

\* free\s+(\w+) at i: <<start, end>> of group 1
FreeGroup(pl, i) ==
    LET w == IF StartsAt(pl, i, "free") THEN SpacesEnd(pl, i + 3) ELSE 0
        e == IF w > 0 /\ Ch(pl, w + 1) \in WordSet THEN RunEnd(pl, w + 1, WordSet) ELSE 0
    IN  IF e > 0 THEN <<w + 1, e>> ELSE <<0, 0>>

NoOffer == [type |-> "none", value |-> None, text |-> ""]

\* int(match.group(1)) raised: _extract_offer returns nothing
OfferValueError == [type |-> "ValueError", value |-> None, text |-> ""]

\* re.search: the leftmost position where the percentage pattern matches
PctLeftmost(pl) ==
    CHOOSE j \in 1..Len(pl) : PctEnd(pl, j) > 0 /\ \A k \in 1..(j - 1) : PctEnd(pl, k) = 0

\* re.search: the leftmost position where the flat pattern matches
FlatLeftmost(pl) ==
    CHOOSE j \in 1..Len(pl) :
        FlatGroup(pl, j)[2] > 0 /\ \A k \in 1..(j - 1) : FlatGroup(pl, k)[2] = 0

PercentageOffer(pl) ==
    LET i == PctLeftmost(pl)
        g == SubSeq(pl, i, PctEnd(pl, i))
    IN  IF IntRaises(g) THEN OfferValueError
        ELSE [type |-> "percentage", value |-> ParseInt(g), text |-> g \o "% OFF"]

FlatOffer(pl) ==
    LET i == FlatLeftmost(pl)
        g == SubSeq(pl, FlatGroup(pl, i)[1], FlatGroup(pl, i)[2])
    IN  IF IntRaises(g) THEN OfferValueError
        ELSE [type |-> "flat", value |-> ParseInt(g), text |-> "Rs" \o g \o " OFF"]

FreebieOffer(pl) ==
    LET i == SetMin({j \in 1..Len(pl) : FreeGroup(pl, j)[2] > 0})
        g == SubSeq(pl, FreeGroup(pl, i)[1], FreeGroup(pl, i)[2])
    IN  [type |-> "freebie", value |-> g, text |-> "FREE " \o ToUpper(g)]

SaleOffer == [type |-> "sale", value |-> None, text |-> "SALE"]

ExtractOffer(pl) ==
    IF \E i \in 1..Len(pl) : PctEnd(pl, i) > 0 THEN PercentageOffer(pl)
    ELSE IF \E i \in 1..Len(pl) : FlatGroup(pl, i)[2] > 0 THEN FlatOffer(pl)
    ELSE IF Contains(pl, "free") /\ \E i \in 1..Len(pl) : FreeGroup(pl, i)[2] > 0
         THEN FreebieOffer(pl)
    ELSE IF Contains(pl, "sale") THEN SaleOffer
    ELSE NoOffer

PriceWords == <<"price", "affordable", "cheap", "budget", "value", "deal", "offer", "discount",
                "save", "cost">>
\* PromptAnalyzer._is_price_focused
IsPriceFocused(pl) == Hits(pl, PriceWords) >= 2

\* word\s+(\w+) at i, with an optional second (\s+\w+) when two is TRUE: the end of
\* the whole match, 0 when no match
LeadEnd(pl, i, word, two) ==
    LET w  == IF StartsAt(pl, i, word) THEN SpacesEnd(pl, i + Len(word) - 1) ELSE 0
        e1 == IF w > 0 /\ Ch(pl, w + 1) \in WordSet THEN RunEnd(pl, w + 1, WordSet) ELSE 0
        w1 == IF e1 > 0 /\ two THEN SpacesEnd(pl, e1) ELSE 0
        e2 == IF w1 > 0 /\ Ch(pl, w1 + 1) \in WordSet THEN RunEnd(pl, w1 + 1, WordSet) ELSE 0
    IN  IF e2 > 0 THEN e2 ELSE e1

ValuePatterns == <<"best", "quality", "affordable", "trusted", "premium">>

\* PromptAnalyzer._extract_value_prop: group(0) of the first pattern that matches
ExtractValueProp(pl) ==
    LET M(k) == {i \in 1..Len(pl) : LeadEnd(pl, i, ValuePatterns[k], k = 1) > 0}
        K == {k \in 1..Len(ValuePatterns) : M(k) # {}}
    IN  IF K = {} THEN None
        ELSE LET k == SetMin(K)
                 i == SetMin(M(k))
             IN  SubSeq(pl, i, LeadEnd(pl, i, ValuePatterns[k], k = 1))

\* PromptAnalyzer._calculate_visual_weight
CalculateVisualWeight(s) ==
    IF WordCount(s) > 15 THEN "heavy" ELSE IF WordCount(s) > 8 THEN "medium" ELSE "light"

InfoIndicators == <<"features", "services", "offers", "products", "all", "everything",
                    "complete", "full">>
\* PromptAnalyzer._calculate_density
CalculateDensity(pl) ==
    IF Hits(pl, InfoIndicators) >= 2 THEN "dense"
    ELSE IF Hits(pl, InfoIndicators) = 1 THEN "moderate"
    ELSE "focused"

WarmContexts == <<"food", "coffee", "restaurant", "home", "family", "cozy", "warm",
                  "traditional", "indian", "spice">>
CoolContexts == <<"tech", "digital", "modern", "startup", "app", "software", "ai", "future",
                  "cool", "fresh">>
\* PromptAnalyzer._determine_color_temp
DetermineColorTemp(pl) ==
    IF Hits(pl, WarmContexts) > Hits(pl, CoolContexts) THEN "warm"
    ELSE IF Hits(pl, CoolContexts) > Hits(pl, WarmContexts) THEN "cool"
    ELSE "neutral"

HighContrastContexts == <<"sale", "urgent", "flash", "bold", "mega", "big", "huge">>
LowContrastContexts == <<"elegant", "subtle", "minimal", "soft", "gentle", "luxury">>
\* PromptAnalyzer._determine_contrast
DetermineContrast(pl) ==
    IF AnyIn(pl, HighContrastContexts) THEN "high"
    ELSE IF AnyIn(pl, LowContrastContexts) THEN "low"
    ELSE "medium"

(***************************************************************************)
(* The built-in hash() of a str.  CPython salts it with a key drawn once    *)
(* per interpreter process (PYTHONHASHSEED), so its value is fixed inside a *)
(* process and differs between processes.  The model mixes the key of the   *)
(* process with the characters of the string; the mixing function stands    *)
(* for SipHash and only its dependence on (key, string) is relied on.       *)
(***************************************************************************)
CharCode(c) ==
    IF c \in LowerSet THEN IndexIn(LowerChars, c)
    ELSE IF c \in UpperSet THEN 26 + IndexIn(UpperChars, c)
    ELSE IF c \in DigitSet THEN 52 + IndexIn(DigitChars, c)
    ELSE 63

RECURSIVE HashFold(_, _, _)
HashFold(key, s, h) ==
    IF s = "" THEN h
    ELSE HashFold(key, SubSeq(s, 2, Len(s)), (h * (31 + 2 * key) + CharCode(Ch(s, 1)) + key) % 65521)

PyStrHash(key, s) == HashFold(key, s, 7 * key + Len(s))

\* <<hash, word>> for each word of words
RECURSIVE HashPairs(_, _)
HashPairs(key, words) ==
    IF words = <<>> THEN <<>>
    ELSE << <<PyStrHash(key, Head(words)), Head(words)>> >> \o HashPairs(key, Tail(words))

\* pair put into the list sorted, after the pairs of equal hash; dropped when
\* its word is in the list already
RECURSIVE InsertPair(_, _)
InsertPair(sorted, pair) ==
    IF sorted = <<>> THEN <<pair>>
    ELSE IF \E k \in 1..Len(sorted) : sorted[k][2] = pair[2] THEN sorted
    ELSE IF pair[1] < Head(sorted)[1] THEN <<pair>> \o sorted
    ELSE <<Head(sorted)>> \o InsertPair(Tail(sorted), pair)

RECURSIVE InsertAll(_, _)
InsertAll(sorted, pairs) ==
    IF pairs = <<>> THEN sorted ELSE InsertAll(InsertPair(sorted, Head(pairs)), Tail(pairs))

\* Iteration order of set(words): by salted hash, equal hashes in insertion order
SetOrder(key, words) ==
    LET sorted == InsertAll(<<>>, HashPairs(key, words))
    IN  [k \in 1..Len(sorted) |-> sorted[k][2]]

KeywordStopWords ==
    {"a", "an", "the", "and", "or", "but", "in", "on", "at", "to", "for", "of", "with", "by",
     "from", "is", "are", "was", "were", "be", "been", "being", "have", "has", "had", "do",
     "does", "did", "will", "would", "could", "should", "may", "might", "must", "shall", "can",
     "need", "dare", "ought", "used", "i", "you", "he", "she", "it", "we", "they", "what",
     "which", "who", "whom", "this", "that", "these", "those", "am", "your", "our", "my"}

\* \b[a-zA-Z]{3,}\b at i: the end of the match, 0 when no match
LongWordEnd(pl, i) ==
    LET e == IF Boundary(pl, i) /\ Ch(pl, i) \in AlphaSet THEN RunEnd(pl, i, AlphaSet) ELSE 0
    IN  IF e - i + 1 >= 3 /\ Ch(pl, e + 1) \notin WordSet THEN e ELSE 0

RECURSIVE FindLongWords(_, _)
FindLongWords(pl, from) ==
    LET I == {i \in from..Len(pl) : LongWordEnd(pl, i) > 0}
    IN  IF I = {} THEN <<>>
        ELSE LET i == SetMin(I)
             IN  <<SubSeq(pl, i, LongWordEnd(pl, i))>> \o FindLongWords(pl, LongWordEnd(pl, i) + 1)

\* PromptAnalyzer._extract_unique_keywords: list(set(unique))[:10]
ExtractUniqueKeywords(key, pl) ==
    LET unique == SelectSeq(FindLongWords(pl, 1), LAMBDA w : w \notin KeywordStopWords)
        listed == SetOrder(key, unique)
    IN  SubSeq(listed, 1, Min(10, Len(listed)))

LeadPatterns == << <<"only", "exclusivity">>, <<"first", "pioneering">>, <<"best", "quality">>,
                   <<"largest", "scale">> >>
PlainPatterns == << <<"trusted", "reliability">>, <<"certified", "credibility">>,
                    <<"authentic", "genuineness">>, <<"original", "authenticity">> >>

\* PromptAnalyzer._find_differentiators
FindDifferentiators(pl) ==
    LET lead == SelectSeq(LeadPatterns,
                    LAMBDA d : \E i \in 1..Len(pl) : LeadEnd(pl, i, d[1], FALSE) > 0)
        plain == SelectSeq(PlainPatterns, LAMBDA d : Contains(pl, d[1]))
    IN  [k \in 1..(Len(lead) + Len(plain)) |->
            IF k <= Len(lead) THEN lead[k][2] ELSE plain[k - Len(lead)][2]]

AudienceHints == <<
    <<"youth", <<"trendy", "cool", "instagram", "tiktok", "gen z", "student", "college">> >>,
    <<"families", <<"family", "kids", "children", "home", "household">> >>,
    <<"professionals", <<"business", "professional", "office", "corporate", "enterprise">> >>,
    <<"budget_conscious", <<"affordable", "budget", "cheap", "save", "discount", "value">> >>,
    <<"premium", <<"luxury", "premium", "exclusive", "high-end", "elite">> >>,
    <<"local", <<"local", "neighborhood", "community", "near", "city">> >> >>

\* PromptAnalyzer._infer_audience
InferAudience(pl) ==
    LET K == {k \in 1..Len(AudienceHints) : AnyIn(pl, AudienceHints[k][2])}
    IN  IF K = {} THEN "general" ELSE AudienceHints[SetMin(K)][1]

\* what is left of the analysis when _deep_analyze raised
ValueErrorRaised == [raised |-> "ValueError"]

\* The dictionary of _deep_analyze once _extract_offer has returned offer; the
\* ValueError of _extract_offer leaves _deep_analyze.
AnalysisWith(s, pl, key, offer) ==
    IF offer.type = "ValueError" THEN ValueErrorRaised ELSE
        [brand_name |-> ExtractBrandName(s, pl),
         business_type |-> DetermineBusinessType(pl),
         business_scale |-> DetermineScale(pl),
         locality |-> ExtractLocality(s, pl),
         emotional_tone |-> DetermineEmotion(pl),
         urgency_level |-> DetermineUrgency(pl),
         trust_signals_needed |-> NeedsTrust(pl),
         excitement_level |-> DetermineExcitement(pl),
         has_offer |-> HasOffer(pl),
         offer_details |-> offer,
         price_sensitivity |-> IsPriceFocused(pl),
         value_proposition |-> ExtractValueProp(pl),
         visual_weight |-> CalculateVisualWeight(s),
         density_preference |-> CalculateDensity(pl),
         color_temperature |-> DetermineColorTemp(pl),
         contrast_level |-> DetermineContrast(pl),
         unique_keywords |-> ExtractUniqueKeywords(key, pl),
         differentiators |-> FindDifferentiators(pl),
         target_audience_hints |-> InferAudience(pl)]

\* PromptAnalyzer._deep_analyze, in the process whose hash key is key
DeepAnalyze(s, key) == AnalysisWith(s, ToLower(s), key, ExtractOffer(ToLower(s)))

\* a lookup of the format as it is written
GetCanvasSizeAsWritten(fmt) ==
    IF fmt \in {"post", "square"} THEN <<1080, 1080>>
    ELSE IF fmt \in {"story", "reel"} THEN <<1080, 1920>>
    ELSE IF fmt = "landscape" THEN <<1200, 628>>
    ELSE IF fmt = "portrait" THEN <<1080, 1350>>
    ELSE <<1080, 1080>>

(***************************************************************************)
(* CreativeDirector: canvas size and the seeded primitives.                 *)
(***************************************************************************)
\* CreativeDirector._get_canvas_size
GetCanvasSize(fmt) ==
    LET f == ToLower(fmt)
    IN  IF f \in {"post", "square"} THEN <<1080, 1080>>
        ELSE IF f \in {"story", "reel"} THEN <<1080, 1920>>
        ELSE IF f = "landscape" THEN <<1200, 628>>
        ELSE IF f = "portrait" THEN <<1080, 1350>>
        ELSE <<1080, 1080>>

\* CreativeDirector._seeded_choice: idx, for the seed s and a bank of n entries
ChoiceIndex(s, offset, n) == (s + offset) % n

\* CreativeDirector._seeded_choice
SeededChoice(items, offset) ==
    IF items = <<>> THEN None ELSE items[((seed + offset) % Len(items)) + 1]

\* CreativeDirector._seeded_float, in thousandths
SeededFloat(offset) == (seed + offset) % 1000

SeededIntDrifting(min_val, max_val, offset) ==
    min_val + ((seed + run + offset) % (max_val - min_val + 1))

\* CreativeDirector._seeded_int
SeededInt(min_val, max_val, offset) ==
    min_val + ((seed + offset) % (max_val - min_val + 1))

(***************************************************************************)
(* CreativeDirector._develop_creative_direction                             *)
(***************************************************************************)
RECURSIVE Join(_, _)
Join(parts, sep) ==
    IF parts = <<>> THEN ""
    ELSE IF Len(parts) = 1 THEN parts[1]
    ELSE parts[1] \o sep \o Join(Tail(parts), sep)

\* the truth value of analysis["offer_details"]
OfferPresent(a) == a.offer_details.type # "none"

\* a tree that asks for the scale before the offer
HierarchyScaleFirst(a) ==
    IF a.business_scale = "small_local" THEN <<"brand", "value_prop", "trust_signals", "cta">>
    ELSE IF a.has_offer /\ OfferPresent(a) THEN <<"offer", "brand", "cta", "trust">>
    ELSE IF a.excitement_level > 5 THEN <<"headline", "brand", "details", "cta">>
    ELSE <<"brand", "tagline", "cta">>

\* _develop_creative_direction: direction["hierarchy"]
Hierarchy(a) ==
    IF a.has_offer /\ OfferPresent(a) THEN <<"offer", "brand", "cta", "trust">>
    ELSE IF a.business_scale = "small_local" THEN <<"brand", "value_prop", "trust_signals", "cta">>
    ELSE IF a.excitement_level > 5 THEN <<"headline", "brand", "details", "cta">>
    ELSE <<"brand", "tagline", "cta">>

PrimaryMessage(a) ==
    IF a.has_offer /\ OfferPresent(a) THEN "promotional"
    ELSE IF a.business_scale = "small_local" THEN "trust_building"
    ELSE IF a.excitement_level > 5 THEN "announcement"
    ELSE "brand_awareness"

FocalPoint(a) ==
    IF a.has_offer /\ OfferPresent(a) THEN "offer"
    ELSE IF a.business_scale = "small_local" THEN "brand_identity"
    ELSE IF a.excitement_level > 5 THEN "headline"
    ELSE "brand"

VisualStyle(a) ==
    IF a.business_type \in {"retail_electronics", "retail_fashion", "local_store"} THEN
        IF a.emotional_tone = "trust" THEN "clean_trustworthy"
        ELSE IF a.emotional_tone = "value" THEN "bold_promotional"
        ELSE "professional_retail"
    ELSE IF a.business_type \in {"tech_startup", "professional_service"} THEN "modern_minimal"
    ELSE IF a.business_type \in {"food_restaurant", "food_delivery"} THEN "warm_appetizing"
    ELSE IF a.business_type = "fitness_gym" THEN "energetic_bold"
    ELSE IF a.business_type = "beauty_salon" THEN "elegant_refined"
    ELSE "balanced_professional"

DesignRationale(a) ==
    Join((IF a.brand_name # None THEN <<"Design for '" \o a.brand_name \o "'">> ELSE <<>>)
         \o <<"targeting " \o a.target_audience_hints \o " audience">>
         \o <<"with " \o a.emotional_tone \o " emotional tone">>
         \o (IF a.locality # None
             THEN <<"emphasizing local presence in " \o a.locality>> ELSE <<>>),
         ", ")

DevelopCreativeDirection(a) ==
    [primary_message |-> PrimaryMessage(a),
     visual_style |-> VisualStyle(a),
     focal_point |-> FocalPoint(a),
     hierarchy |-> Hierarchy(a),
     design_rationale |-> DesignRationale(a)]

(***************************************************************************)
(* CreativeDirector._create_custom_palette.  hsl_to_hex is computed in      *)
(* exact arithmetic: p and q in units of 1/10000, the hue argument t in     *)
(* units of 1/1080 of a turn, a channel value in units of 1/1800000.        *)
(***************************************************************************)
HexChars == "0123456789abcdef"

RECURSIVE HexDigits(_)
HexDigits(n) ==
    IF n < 16 THEN Ch(HexChars, n + 1) ELSE HexDigits(n \div 16) \o Ch(HexChars, (n % 16) + 1)

\* '{:02x}'.format(n)
Format02x(n) ==
    LET body == IF n < 0 THEN "-" \o HexDigits(-n) ELSE HexDigits(n)
    IN  IF Len(body) >= 2 THEN body
        ELSE IF n < 0 THEN "-" \o "0" \o HexDigits(-n) ELSE "0" \o body

\* int(x) of the rational num / den, den > 0: truncation toward zero
Trunc(num, den) == IF num >= 0 THEN num \div den ELSE -((-num) \div den)

\* hue_to_rgb without the wrap of t into [0, 1]
HueToRgbNoWrap(p, q, t) ==
    IF t < 180 THEN 180 * p + (q - p) * t
    ELSE IF t < 540 THEN 180 * q
    ELSE IF t < 720 THEN 180 * p + (q - p) * (720 - t)
    ELSE 180 * p

\* hue_to_rgb(p, q, t), times 180
HueToRgb(p, q, t) ==
    LET t1 == IF t < 0 THEN t + 1080 ELSE t
        t2 == IF t1 > 1080 THEN t1 - 1080 ELSE t1
    IN  IF t2 < 180 THEN 180 * p + (q - p) * t2
        ELSE IF t2 < 540 THEN 180 * q
        ELSE IF t2 < 720 THEN 180 * p + (q - p) * (720 - t2)
        ELSE 180 * p

\* The three channels int(r * 255), int(g * 255), int(b * 255) of hsl_to_hex(h, s, l)
HslChannels(h, s, l) ==
    IF s = 0 THEN LET c == Trunc(l * 255, 100) IN <<c, c, c>>
    ELSE LET q == IF l < 50 THEN l * (100 + s) ELSE 100 * l + 100 * s - l * s
             p == 200 * l - q
         IN  <<Trunc(HueToRgb(p, q, 3 * h + 360) * 255, 1800000),
               Trunc(HueToRgb(p, q, 3 * h) * 255, 1800000),
               Trunc(HueToRgb(p, q, 3 * h - 360) * 255, 1800000)>>

HslToHex(h, s, l) ==
    LET c == HslChannels(h, s, l)
    IN  "#" \o Format02x(c[1]) \o Format02x(c[2]) \o Format02x(c[3])

HueRange(temp) ==
    IF temp = "warm" THEN <<15, 45>> ELSE IF temp = "cool" THEN <<200, 240>> ELSE <<0, 360>>

BusinessHueAdjust ==
    [retail_electronics |-> 210, food_restaurant |-> 25, fitness_gym |-> 0,
     beauty_salon |-> 330, tech_startup |-> 220, professional_service |-> 220,
     real_estate |-> 35]

SatMap ==
    [excitement |-> 85, urgency |-> 90, trust |-> 60, warmth |-> 55, prestige |-> 40,
     value |-> 80, professionalism |-> 50, fun |-> 85, neutral |-> 65]

BaseHue(a) ==
    IF a.business_type \in DOMAIN BusinessHueAdjust
    THEN BusinessHueAdjust[a.business_type] + SeededInt(-15, 15, 101)
    ELSE SeededInt(HueRange(a.color_temperature)[1], HueRange(a.color_temperature)[2], 100)

Saturation(a) ==
    Max(30, Min(100, (IF a.emotional_tone \in DOMAIN SatMap THEN SatMap[a.emotional_tone] ELSE 65)
                         + SeededInt(-10, 10, 102)))

BgLightness(a) ==
    IF a.contrast_level = "high" THEN SeededInt(8, 18, 103)
    ELSE IF a.contrast_level = "low" THEN SeededInt(20, 35, 103)
    ELSE SeededInt(12, 25, 103)

TextLightness(a) == IF a.contrast_level = "low" THEN 90 ELSE 95

SecondaryHue(a) == (BaseHue(a) + 30 + SeededInt(0, 60, 104)) % 360

\* The (h, s, l) of each hsl_to_hex call of _create_custom_palette, in call order
PaletteHsl(a) ==
    [accent |-> <<BaseHue(a), Saturation(a), 55>>,
     secondary |-> <<SecondaryHue(a), Saturation(a) - 10, 60>>,
     background_primary |-> <<BaseHue(a), Saturation(a) \div 3, BgLightness(a)>>,
     background_secondary |-> <<(BaseHue(a) + 20) % 360, Saturation(a) \div 4, BgLightness(a) + 5>>,
     text_primary |-> <<BaseHue(a), 5, TextLightness(a)>>,
     text_secondary |-> <<BaseHue(a), 10, TextLightness(a) - 20>>]

CreateCustomPalette(a) ==
    LET hsl == PaletteHsl(a)
        hex(k) == HslToHex(hsl[k][1], hsl[k][2], hsl[k][3])
    IN  [accent |-> hex("accent"),
         secondary |-> hex("secondary"),
         background_primary |-> hex("background_primary"),
         background_secondary |-> hex("background_secondary"),
         text_primary |-> hex("text_primary"),
         text_secondary |-> hex("text_secondary"),
         background_colors |-> <<hex("background_primary"), hex("background_secondary")>>]

(***************************************************************************)
(* CreativeDirector._invent_layout.  A percentage v is held as v * Scale;   *)
(* Scale makes every zone height 70 * w / W (W the weight total of one of   *)
(* the four hierarchies: 4.2, 3.3, 3.8, 2.5) and every half and tenth of a  *)
(* percent an integer.                                                      *)
(***************************************************************************)
Scale == 3 * 11 * 19 * 10
Pct(v) == v * Scale

\* importance_weights, times ten; .get(z, 0.8) for a name that is not a key
ImportanceWeight(z) ==
    IF z = "offer" THEN 15 ELSE IF z = "brand" THEN 12 ELSE IF z = "headline" THEN 14
    ELSE IF z = "value_prop" THEN 8 ELSE IF z = "trust_signals" THEN 6
    ELSE IF z = "cta" THEN 7 ELSE IF z = "tagline" THEN 6 ELSE IF z = "details" THEN 5
    ELSE 8

RECURSIVE TotalWeight(_)
TotalWeight(h) == IF h = <<>> THEN 0 ELSE ImportanceWeight(Head(h)) + TotalWeight(Tail(h))

\* height_pct = (weight / total_weight) * 70
ZoneHeight(h, z) == (Pct(70) * ImportanceWeight(z)) \div TotalWeight(h)

\* weights that put the offer's share of the centre on the left
AlignmentWeightsOfferLeft(a) ==
    IF a.business_scale = "large" THEN <<300, 500, 200>>
    ELSE IF a.has_offer THEN <<500, 250, 250>>
    ELSE <<400, 350, 250>>

\* weights of the draw over ["left", "center", "right"], in thousandths
AlignmentWeights(a) ==
    IF a.business_scale = "large" THEN <<300, 500, 200>>
    ELSE IF a.has_offer THEN <<250, 500, 250>>
    ELSE <<400, 350, 250>>

\* the weighted draw over ["left", "center", "right"]; the for-else gives "center"
Alignment(a) ==
    LET w == AlignmentWeights(a)
        t == SeededFloat(200)
    IN  IF t < w[1] THEN "left"
        ELSE IF t < w[1] + w[2] THEN "center"
        ELSE IF t < w[1] + w[2] + w[3] THEN "right"
        ELSE "center"

TopMargin(density) == IF density = "dense" THEN 8 ELSE IF density = "focused" THEN 20 ELSE 15
Spacing(density) == IF density = "dense" THEN 2 ELSE IF density = "focused" THEN 8 ELSE 5

\* x and width of the zone named z, for the hash key of the running process
ZoneX(alignment, key, z) ==
    IF alignment = "left" THEN Pct(8 + SeededInt(0, 3, PyStrHash(key, z)))
    ELSE IF alignment = "right"
    THEN Pct(92 - (70 + SeededInt(-5, 10, PyStrHash(key, z) + 1))
                + SeededInt(0, 3, PyStrHash(key, z)))
    ELSE Pct(100 - (80 + SeededInt(-10, 10, PyStrHash(key, z) + 1))) \div 2

ZoneWidth(alignment, key, z) ==
    IF alignment \in {"left", "right"} THEN Pct(70 + SeededInt(-5, 10, PyStrHash(key, z) + 1))
    ELSE Pct(80 + SeededInt(-10, 10, PyStrHash(key, z) + 1))

\* the cursor advanced by the spacing alone
CursorAtNoHeight(h, density, k) == Pct(TopMargin(density)) + (k - 1) * Pct(Spacing(density))

\* current_y when the loop reaches entry k of the hierarchy
RECURSIVE CursorAt(_, _, _)
CursorAt(h, density, k) ==
    IF k = 1 THEN Pct(TopMargin(density))
    ELSE CursorAt(h, density, k - 1) + ZoneHeight(h, h[k - 1]) + Pct(Spacing(density))

\* a footer ten higher
FooterZoneRaised == [x |-> Pct(5), y |-> Pct(80), width |-> Pct(90), height |-> Pct(8)]

FooterZone == [x |-> Pct(5), y |-> Pct(90), width |-> Pct(90), height |-> Pct(8)]

InventLayout(a, key) ==
    LET h == Hierarchy(a)
        density == a.density_preference
        IndexOf(z) == SetMax({k \in 1..Len(h) : h[k] = z})
        primary == [z \in {h[k] : k \in 1..Len(h)} |->
                      [x |-> ZoneX(Alignment(a), key, z),
                       y |-> CursorAt(h, density, IndexOf(z)),
                       width |-> ZoneWidth(Alignment(a), key, z),
                       height |-> ZoneHeight(h, z)]]
        remaining == Pct(100) - CursorAt(h, density, Len(h) + 1)
    IN  [type |-> "custom",
         zones |-> IF remaining > Pct(15)
                   THEN [z \in DOMAIN primary \cup {"footer"} |->
                            IF z = "footer" THEN FooterZone ELSE primary[z]]
                   ELSE primary,
         alignment |-> Alignment(a),
         spacing_ratio |-> 1]

(***************************************************************************)
(* CreativeDirector._write_contextual_copy                                  *)
(***************************************************************************)
\* the phrase bank of the brand branch, by business type
BrandHeadlines(a) ==
    LET brand == a.brand_name
        locality == a.locality
    IN  IF a.business_type = "retail_electronics" THEN
            <<brand \o "\nYour Trusted Mobile Destination",
              brand \o "\nSmartphones. Accessories. Service.",
              "Welcome to " \o brand \o "\nGenuine Devices, Honest Prices",
              brand \o "\nLatest Tech, Best Deals">>
        ELSE IF a.business_type = "local_store" THEN
            IF locality # None THEN
                <<brand \o "\nServing " \o locality \o " Since Day One",
                  "Visit " \o brand \o "\nYour Neighborhood Store in " \o locality,
                  brand \o "\nTrusted by " \o locality>>
            ELSE
                <<brand \o "\nYour Neighborhood Store",
                  "Shop at " \o brand \o "\nQuality You Can Trust",
                  "Welcome to " \o brand>>
        ELSE IF a.business_type = "food_restaurant" THEN
            <<brand \o "\nFlavors You'll Love",
              "Dine at " \o brand \o "\nFreshly Made, Always Delicious",
              brand \o "\nWhere Taste Meets Quality">>
        ELSE IF a.business_type = "fitness_gym" THEN
            <<brand \o "\nTransform Your Body",
              "Join " \o brand \o "\nYour Fitness Journey Starts Here",
              brand \o "\nStrength. Discipline. Results.">>
        ELSE IF a.business_type = "beauty_salon" THEN
            <<brand \o "\nElevate Your Beauty",
              "Experience " \o brand \o "\nWhere Beauty Meets Care",
              brand \o "\nGlow with Confidence">>
        ELSE IF a.business_type = "tech_startup" THEN
            <<brand \o "\nSimplifying the Complex",
              brand \o "\nBuilt for Tomorrow",
              "Meet " \o brand \o "\nSmart Solutions, Real Results">>
        ELSE
            <<brand, "Experience " \o brand, "Welcome to " \o brand>>

\* the headline when there is neither an offer nor a brand
KeywordHeadline(a) ==
    IF a.unique_keywords # <<>> THEN
        LET main_kw == Capitalize(a.unique_keywords[1])
        IN  IF a.business_type = "retail_electronics" THEN "Your " \o main_kw \o " Destination"
            ELSE IF a.business_type = "food_restaurant" THEN "Taste the Best " \o main_kw
            ELSE "Quality " \o main_kw
    ELSE IF a.locality # None THEN "Serving " \o a.locality \o "\nWith Excellence"
    ELSE "Quality You Deserve"

\* the offer branch without the brand line
HeadlineDroppingBrand(a) ==
    IF a.has_offer /\ OfferPresent(a) THEN a.offer_details.text
    ELSE IF a.brand_name # None THEN SeededChoice(BrandHeadlines(a), 300)
    ELSE KeywordHeadline(a)

Headline(a) ==
    IF a.has_offer /\ OfferPresent(a) THEN
        IF a.brand_name # None THEN a.brand_name \o "\n" \o a.offer_details.text
        ELSE a.offer_details.text
    ELSE IF a.brand_name # None THEN SeededChoice(BrandHeadlines(a), 300)
    ELSE KeywordHeadline(a)

Subheadlines(a) ==
    IF a.emotional_tone = "trust" THEN
        <<"Trusted by thousands of customers", "Quality assured, always",
          "Your satisfaction is our priority">>
    ELSE IF a.emotional_tone = "value" THEN
        <<"Best prices, guaranteed", "Unbeatable value, every day", "Quality without compromise">>
    ELSE IF a.emotional_tone = "excitement" THEN
        <<"Something special awaits", "Experience the difference", "You won't want to miss this">>
    ELSE IF \E k \in 1..Len(a.differentiators) : a.differentiators[k] = "reliability" THEN
        <<"Dependable service, every time", "Count on us for consistency">>
    ELSE
        <<"Quality service, always", "We're here for you", "Excellence in every detail">>

Ctas(a) ==
    IF a.has_offer THEN <<"Shop Now", "Claim Offer", "Get Deal", "Save Today">>
    ELSE IF a.business_type = "food_restaurant" THEN <<"Order Now", "View Menu", "Book Table", "Visit Us">>
    ELSE IF a.business_type = "fitness_gym" THEN <<"Join Today", "Start Free", "Book Trial", "Get Fit">>
    ELSE IF a.business_type = "tech_startup" THEN <<"Get Started", "Try Free", "Learn More", "Sign Up">>
    ELSE IF a.business_type \in {"local_store", "retail_electronics"}
         THEN <<"Visit Store", "Shop Now", "Call Us", "Get Directions">>
    ELSE <<"Learn More", "Contact Us", "Get Started", "Visit">>

\* The check mark that opens every trust line is written "v " here.
TrustLines(a) ==
    IF a.business_type = "retail_electronics"
    THEN <<"v Genuine Products", "v Warranty Assured", "v Expert Support">>
    ELSE IF a.locality # None
    THEN <<"v Serving " \o a.locality, "v Local & Trusted", "v Community Choice">>
    ELSE <<"v Quality Guaranteed", "v Trusted Service", "v Customer First">>

WriteContextualCopy(a) ==
    [headline |-> Headline(a),
     subheadline |-> SeededChoice(Subheadlines(a), 310),
     cta |-> SeededChoice(Ctas(a), 320),
     trust_line |-> IF a.trust_signals_needed THEN SeededChoice(TrustLines(a), 330) ELSE "",
     offer_text |-> IF a.has_offer /\ OfferPresent(a) THEN a.offer_details.text ELSE ""]

(***************************************************************************)
(* CreativeDirector._construct_elements.  Positions and sizes are in units  *)
(* of 1/Scale percent, opacity and line height in hundredths.  An element   *)
(* is first built with the prefix of its id; NumberIds then gives it the    *)
(* value of the element counter, which next_id advances once per element.   *)
(***************************************************************************)
RECURSIVE NatToStr(_)
NatToStr(n) ==
    IF n < 10 THEN Ch(DigitChars, n + 1) ELSE NatToStr(n \div 10) \o Ch(DigitChars, (n % 10) + 1)

Shape(kind, prefix, x, y, w, h, fill, opacity, radius) ==
    [type |-> "shape", shape_type |-> kind, id |-> prefix,
     position |-> [x |-> x, y |-> y], size |-> [width |-> w, height |-> h],
     fill_color |-> fill, opacity |-> opacity, corner_radius |-> radius]

Text(prefix, x, y, w, h, content, font_size, font_weight, font_family, color, align, opacity) ==
    [type |-> "text", id |-> prefix,
     position |-> [x |-> x, y |-> y], size |-> [width |-> w, height |-> h],
     content |-> content, font_size |-> font_size, font_weight |-> font_weight,
     font_family |-> font_family, color |-> color, align |-> align, opacity |-> opacity]

\* the glow circles, present for medium and heavy visual weight
GlowElements(a, c) ==
    IF a.visual_weight \in {"medium", "heavy"} THEN
        <<Shape("circle", "glow", Pct(SeededInt(-20, 20, 400)), Pct(SeededInt(-10, 30, 401)),
                Pct(60), Pct(60), c.accent, 8, 0),
          Shape("circle", "glow", Pct(SeededInt(50, 90, 402)), Pct(SeededInt(40, 80, 403)),
                Pct(45), Pct(45), c.secondary, 10, 0)>>
    ELSE <<>>

\* the corner accents, by accent_style = _seeded_int(0, 3, offset=404)
AccentElements(c) ==
    LET accent_style == SeededInt(0, 3, 404)
    IN  IF accent_style = 0 THEN
            <<Shape("rect", "corner", Pct(5), Pct(5), Pct(15), Pct(1) \div 2, c.accent, 60, 0),
              Shape("rect", "corner", Pct(5), Pct(5), Pct(1) \div 2, Pct(15), c.accent, 60, 0)>>
        ELSE IF accent_style = 1 THEN
            [k \in 1..9 |->
                Shape("circle", "dot", Pct(5 + ((k - 1) \div 3) * 3), Pct(5 + ((k - 1) % 3) * 3),
                      Pct(3) \div 2, Pct(3) \div 2, c.accent, 40, 0)]
        ELSE IF accent_style = 2 THEN
            <<Shape("rect", "accent_line", Pct(0), Pct(SeededInt(30, 50, 405)),
                    Pct(4), Pct(30), c.accent, 30, 0)>>
        ELSE <<>>

\* the button flush with the right edge of the zone, its width not taken off
BtnXNoInset(alignment, zone, btn_width) ==
    IF alignment = "left" THEN zone.x
    ELSE IF alignment = "right" THEN zone.x + zone.width
    ELSE zone.x + (zone.width - btn_width) \div 2

\* btn_x of the CTA button
BtnX(alignment, zone, btn_width) ==
    IF alignment = "left" THEN zone.x
    ELSE IF alignment = "right" THEN zone.x + zone.width - btn_width
    ELSE zone.x + (zone.width - btn_width) \div 2

\* the elements of hierarchy entry idx (counted from 0) named z
EntryElements(idx, z, zone, alignment, c, cp) ==
    IF z = "offer" /\ cp.offer_text # "" THEN
        LET badge_width == Min(Pct(40), zone.width)
            badge_x == IF alignment = "center"
                       THEN zone.x + (zone.width - badge_width) \div 2 ELSE zone.x
        IN  <<Shape("rect", "offer_bg", badge_x, zone.y, badge_width, zone.height, c.accent, 100, 8),
              Text("offer_text", badge_x, zone.y + Pct(2), badge_width, zone.height - Pct(4),
                   cp.offer_text, 32, 900, "Montserrat", c.background_primary, "center", 100)>>
    ELSE IF z \in {"brand", "headline"} THEN
        <<Text("headline", zone.x, zone.y, zone.width, zone.height, cp.headline,
               48 + SeededInt(0, 20, 410 + idx), 800, "Montserrat", c.text_primary, alignment, 100)
            @@ [line_height |-> 95]>>   \* "line_height": 0.95, in hundredths
    ELSE IF z \in {"value_prop", "tagline"} THEN
        <<Text("subheadline", zone.x, zone.y, zone.width, zone.height, cp.subheadline,
               18, 400, "Inter", c.text_secondary, alignment, 85)>>
    ELSE IF z = "trust_signals" /\ cp.trust_line # "" THEN
        <<Text("trust", zone.x, zone.y, zone.width, zone.height, cp.trust_line,
               14, 500, "Inter", c.accent, alignment, 100)>>
    ELSE IF z = "cta" THEN
        LET btn_width == Min(Pct(35), zone.width)
            btn_x == BtnX(alignment, zone, btn_width)
        IN  <<Shape("rect", "cta_bg", btn_x, zone.y, btn_width, Pct(10), c.accent, 100,
                    SeededInt(4, 25, 420)),
              Text("cta_text", btn_x, zone.y + Pct(5) \div 2, btn_width, Pct(5),
                   ToUpper(cp.cta), 14, 700, "Inter", c.background_primary, "center", 100)>>
    ELSE IF z = "details" /\ cp.trust_line # "" THEN
        <<Text("details", zone.x, zone.y, zone.width, zone.height, cp.trust_line,
               13, 400, "Inter", c.text_secondary, alignment, 70)>>
    ELSE <<>>

RECURSIVE ContentElements(_, _, _, _, _)
ContentElements(h, k, lay, c, cp) ==
    IF k > Len(h) THEN <<>>
    ELSE (IF h[k] \in DOMAIN lay.zones
          THEN EntryElements(k - 1, h[k], lay.zones[h[k]], lay.alignment, c, cp)
          ELSE <<>>)
         \o ContentElements(h, k + 1, lay, c, cp)

\* the accent divider under the brand zone (the headline zone when there is no brand zone)
DividerElements(lay, c) ==
    IF "brand" \in DOMAIN lay.zones \/ "headline" \in DOMAIN lay.zones THEN
        LET ref_zone == IF "brand" \in DOMAIN lay.zones
                        THEN lay.zones["brand"] ELSE lay.zones["headline"]
            line_x == IF lay.alignment # "right" THEN ref_zone.x
                      ELSE ref_zone.x + ref_zone.width - Pct(20)
        IN  <<Shape("rect", "divider", line_x, ref_zone.y + ref_zone.height + Pct(2),
                    Pct(20), (Pct(4)) \div 5, c.accent, 90, 0)>>
    ELSE <<>>

NumberIds(els) == [k \in 1..Len(els) |-> [els[k] EXCEPT !.id = @ \o "_" \o NatToStr(k)]]

\* an assembly that appends the divider before the content elements
ConstructElementsDividerFirst(a, lay, c, cp) ==
    NumberIds(GlowElements(a, c) \o AccentElements(c)
              \o DividerElements(lay, c)
              \o ContentElements(Hierarchy(a), 1, lay, c, cp))

ConstructElements(a, lay, c, cp) ==
    NumberIds(GlowElements(a, c) \o AccentElements(c)
              \o ContentElements(Hierarchy(a), 1, lay, c, cp)
              \o DividerElements(lay, c))

\* copy["cta"].upper() raises AttributeError when the CTA bank was empty
ConstructRaises(a, lay, cp) ==
    /\ cp.cta = None
    /\ \E k \in 1..Len(Hierarchy(a)) : Hierarchy(a)[k] = "cta" /\ "cta" \in DOMAIN lay.zones

(***************************************************************************)
(* CreativeDirector._design_background and the Blueprint of generate()      *)
(***************************************************************************)
DesignBackground(a, c) ==
    [type |-> "gradient",
     colors |-> c.background_colors,
     angle |-> IF a.emotional_tone \in {"excitement", "urgency"} THEN SeededInt(30, 60, 501)
               ELSE IF a.emotional_tone \in {"trust", "professionalism"} THEN SeededInt(160, 200, 501)
               ELSE SeededInt(120, 180, 500),
     color |-> c.background_primary]

Blueprint(a, size, dir, c, cp, els) ==
    [metadata |-> [platform |-> platform, format |-> format,
                   width |-> size[1], height |-> size[2],
                   creative_direction |-> dir,
                   generation_method |-> "creative_director_v1"],
     analysis |-> a,
     creative_direction |-> dir,
     color_palette |-> c,
     copy |-> cp,
     background |-> DesignBackground(a, c),
     elements |-> els]

(***************************************************************************)
(* blueprint_to_fabric.  A pixel field is held exactly, in units of         *)
(* 1/PxScale pixel, so that (pct / 100) * side is the percentage in its own *)
(* units times the side.  The end points of the gradient line are sines and *)
(* cosines of the angle; the model keeps the angle, the centre and the      *)
(* length they are computed from.                                           *)
(***************************************************************************)
PxScale == 100 * Scale
Px(n) == n * PxScale

\* the colour stops, each offset i / (len(colors) - 1) as <<numerator, denominator>>
ColorStops(cs) ==
    [i \in 1..Len(cs) |-> [offset |-> <<i - 1, Len(cs) - 1>>, color |-> cs[i]]]

\* the first object: the gradient rect for more than one colour, else the solid rect
BackgroundObject(bg, width, height) ==
    [type |-> "rect", left |-> 0, top |-> 0, width |-> Px(width), height |-> Px(height),
     fill |-> IF Len(bg.colors) > 1
              THEN [type |-> "linear",
                    coords |-> [angle |-> bg.angle, cx |-> Px(width) \div 2, cy |-> Px(height) \div 2,
                                length |-> (Px(Max(width, height)) \div 2) * 3],
                    colorStops |-> ColorStops(bg.colors)]
              ELSE IF bg.colors # <<>> THEN bg.colors[1] ELSE "#1a1a2e",
     selectable |-> FALSE, evented |-> FALSE]

\* the body of the element loop: the objects appended for one element
ElementObject(el, width, height) ==
    LET left == el.position.x * width
        top == el.position.y * height
        el_width == el.size.width * width
        el_height == el.size.height * height
    IN  IF el.type = "text" THEN
            <<[type |-> "textbox", id |-> el.id, left |-> left, top |-> top,
               width |-> el_width, text |-> el.content, fontSize |-> el.font_size,
               fontFamily |-> el.font_family, fontWeight |-> el.font_weight,
               fill |-> el.color, textAlign |-> el.align,
               lineHeight |-> IF "line_height" \in DOMAIN el THEN el.line_height ELSE 120,
               charSpacing |-> 0, opacity |-> el.opacity]>>
        ELSE IF el.type = "shape" THEN
            IF el.shape_type = "circle" THEN
                <<[id |-> el.id, left |-> left, top |-> top, fill |-> el.fill_color,
                   opacity |-> el.opacity, type |-> "circle",
                   radius |-> Min(el_width, el_height) \div 2]>>
            ELSE
                <<[id |-> el.id, left |-> left, top |-> top, fill |-> el.fill_color,
                   opacity |-> el.opacity, type |-> "rect",
                   width |-> el_width, height |-> el_height,
                   rx |-> el.corner_radius, ry |-> el.corner_radius]>>
        ELSE <<>>

\* an element loop that appends nothing for a circle
RECURSIVE ElementObjectsNoCircles(_, _, _)
ElementObjectsNoCircles(els, width, height) ==
    IF els = <<>> THEN <<>>
    ELSE (IF Head(els).type = "shape" /\ Head(els).shape_type = "circle" THEN <<>>
          ELSE ElementObject(Head(els), width, height))
         \o ElementObjectsNoCircles(Tail(els), width, height)

\* the element loop, over blueprint["elements"] in list order
RECURSIVE ElementObjects(_, _, _)
ElementObjects(els, width, height) ==
    IF els = <<>> THEN <<>>
    ELSE ElementObject(Head(els), width, height) \o ElementObjects(Tail(els), width, height)

BlueprintToFabric(bp) ==
    [version |-> "5.3.0",
     objects |-> <<BackgroundObject(bp.background, bp.metadata.width, bp.metadata.height)>>
                 \o ElementObjects(bp.elements, bp.metadata.width, bp.metadata.height),
     background |-> bp.background.color]

(***************************************************************************)
(* The state machine: generate_creative_design is called MaxCalls times on  *)
(* the same (prompt, platform, format), one call after the other; the first *)
(* two calls run in one interpreter process, the later ones in a second.    *)
(***************************************************************************)
MaxCalls == 3
MaxSeedIdx == 2
MaxHashKey == 1
MaxOnceSeedIdx == 14
MaxPaletteSeedIdx == 30

Procs == {1, 2}
ProcOf(r) == IF r <= 2 THEN 1 ELSE 2

\* a local of generate() that has not been assigned yet
Unset == <<>>

\* Sample values of the 256-bit prompt hash: multiples of a prime that is
\* coprime to every modulus the seeded primitives use.
Seeds(n) == {211 * i : i \in 0..n}

BrandParts == {"", "Ravi Mobiles - ", "Bright Bean Cafe ", "our shop called Zed "}
OfferParts == {"", "20% off ", "rs 500 off ", "free delivery ", "mega sale ",
               "10% off free gift sale "}
ContextParts == {"", "we do it", "trusted local shop in Pune", "new amazing wow gym",
                 "all features for your family at home today",
                 "Get 20% off everything today", "Visit Bright Bean Coffee today",
                 "we do it so we go on up to me as is if it be ok"}

Prompts == {b \o o \o c : b \in BrandParts, o \in OfferParts, c \in ContextParts}

\* one prompt per entry of business_indicators, with and without a brand and an offer
TypeParts == {"mobile", "fashion", "cafe", "delivery", "gym", "salon", "consulting",
              "startup", "online", "store", "event", "course", "property", "travel", "clinic"}
TypePrompts == {b \o o \o c : b \in {"", "Zed - "}, o \in {"", "20% off "}, c \in TypeParts}

\* a percentage of one digit more than int() converts
RECURSIVE Repeat(_, _)
Repeat(c, n) == IF n = 0 THEN "" ELSE IF n = 1 THEN c
                ELSE Repeat(c, n \div 2) \o Repeat(c, n - n \div 2)
LongPrompts == {Repeat("9", IntMaxStrDigits + 1) \o "% off"}

AllPrompts == Prompts \cup TypePrompts \cup LongPrompts
Platforms == {"instagram"}
Formats == {"post"}

\* the threads that call generate_premium_design
Threads == {1, 2}

\* no thread has called generate_premium_design
PremiumOff ==
    /\ rng = [seed |-> 0, calls |-> <<>>]
    /\ tpc = [t \in Threads |-> "off"]
    /\ tseed = [t \in Threads |-> 0]
    /\ tshapes = [t \in Threads |-> <<>>]

\* PromptAnalyzer(prompt).analysis for every prompt and hash salt of the model,
\* tabulated once
AnalysisOf == [p \in AllPrompts, k \in 0..MaxHashKey |-> DeepAnalyze(p, k)]

Init ==
    /\ prompt \in Prompts
    /\ platform \in Platforms
    /\ format \in Formats
    /\ seed \in Seeds(MaxSeedIdx)
    /\ hashKey \in [Procs -> 0..MaxHashKey]
    /\ run = 0
    /\ pc = "idle"
    /\ analysis = Unset
    /\ direction = Unset
    /\ colors = Unset
    /\ layout = Unset
    /\ copy = Unset
    /\ elements = Unset
    /\ canvas = Unset
    /\ blueprints = <<>>
    /\ scenes = <<>>
    /\ PremiumOff

\* CreativeDirector.__init__ after PromptAnalyzer(prompt) gave a: a ValueError
\* of the analysis leaves the constructor, and generate_creative_design, at once
Analyzed(a) ==
    IF a = ValueErrorRaised
    THEN /\ analysis' = Unset
         /\ canvas' = Unset
         /\ pc' = "raised"
    ELSE /\ analysis' = a
         /\ canvas' = GetCanvasSize(format)
         /\ pc' = "created"

\* CreativeDirector.__init__ of the next call
NewDirector ==
    /\ pc \in {"idle", "done"}
    /\ run < MaxCalls
    /\ run' = run + 1
    /\ Analyzed(AnalysisOf[prompt, hashKey[ProcOf(run + 1)]])
    /\ direction' = Unset
    /\ colors' = Unset
    /\ layout' = Unset
    /\ copy' = Unset
    /\ elements' = Unset
    /\ UNCHANGED <<prompt, platform, format, seed, hashKey, blueprints>>
    /\ UNCHANGED <<scenes, premium>>

Phase1Direction ==
    /\ pc = "created"
    /\ direction' = DevelopCreativeDirection(analysis)
    /\ pc' = "directed"
    /\ UNCHANGED <<prompt, platform, format, seed, hashKey, run, analysis, colors, layout,
                   copy, elements, canvas, blueprints>>
    /\ UNCHANGED <<scenes, premium>>

Phase2Palette ==
    /\ pc = "directed"
    /\ colors' = CreateCustomPalette(analysis)
    /\ pc' = "coloured"
    /\ UNCHANGED <<prompt, platform, format, seed, hashKey, run, analysis, direction, layout,
                   copy, elements, canvas, blueprints>>
    /\ UNCHANGED <<scenes, premium>>

Phase3Layout ==
    /\ pc = "coloured"
    /\ layout' = InventLayout(analysis, hashKey[ProcOf(run)])
    /\ pc' = "laid_out"
    /\ UNCHANGED <<prompt, platform, format, seed, hashKey, run, analysis, direction, colors,
                   copy, elements, canvas, blueprints>>
    /\ UNCHANGED <<scenes, premium>>

Phase4Copy ==
    /\ pc = "laid_out"
    /\ copy' = WriteContextualCopy(analysis)
    /\ pc' = "written"
    /\ UNCHANGED <<prompt, platform, format, seed, hashKey, run, analysis, direction, colors,
                   layout, elements, canvas, blueprints>>
    /\ UNCHANGED <<scenes, premium>>

Phase5Elements ==
    /\ pc = "written"
    /\ IF ConstructRaises(analysis, layout, copy)
       THEN /\ pc' = "raised"
            /\ UNCHANGED elements
       ELSE /\ pc' = "constructed"
            /\ elements' = ConstructElements(analysis, layout, colors, copy)
    /\ UNCHANGED <<prompt, platform, format, seed, hashKey, run, analysis, direction, colors,
                   layout, copy, canvas, blueprints>>
    /\ UNCHANGED <<scenes, premium>>

\* _design_background, the assembly of the Blueprint and the return of generate()
Phase6Return ==
    /\ pc = "constructed"
    /\ blueprints' = Append(blueprints, Blueprint(analysis, canvas, direction, colors, copy, elements))
    /\ pc' = "done"
    /\ UNCHANGED <<prompt, platform, format, seed, hashKey, run, analysis, direction, colors,
                   layout, copy, elements, canvas>>
    /\ UNCHANGED <<scenes, premium>>

Generate ==
    \/ Phase1Direction
    \/ Phase2Palette
    \/ Phase3Layout
    \/ Phase4Copy
    \/ Phase5Elements
    \/ Phase6Return

Next == NewDirector \/ Generate

Spec == Init /\ [][Next]_vars

(***************************************************************************)
(* One call of generate_creative_design, over the wider prompt set and     *)
(* more values of the seed.                                                *)
(***************************************************************************)
InitOnce ==
    /\ prompt \in AllPrompts
    /\ platform \in Platforms
    /\ format \in Formats
    /\ seed \in Seeds(MaxOnceSeedIdx)
    /\ hashKey \in [Procs -> 0..MaxHashKey]
    /\ hashKey[2] = hashKey[1]
    /\ run = 0
    /\ pc = "idle"
    /\ analysis = Unset
    /\ direction = Unset
    /\ colors = Unset
    /\ layout = Unset
    /\ copy = Unset
    /\ elements = Unset
    /\ canvas = Unset
    /\ blueprints = <<>>
    /\ scenes = <<>>
    /\ PremiumOff

FirstDirector == run = 0 /\ NewDirector

NextOnce == FirstDirector \/ Generate

SpecOnce == InitOnce /\ [][NextOnce]_vars

(***************************************************************************)
(* One call of generate_creative_design, then blueprint_to_fabric on the    *)
(* Blueprint it returned, up to MaxProjections times, each time with the    *)
(* canvas size that the caller put in the metadata.                         *)
(***************************************************************************)
MaxProjections == 2
MaxProjectSeedIdx == 2

\* the sizes of the canvas table
CanvasSizes == {<<1080, 1080>>, <<1080, 1920>>, <<1200, 628>>, <<1080, 1350>>}

\* the Blueprint with metadata["width"], metadata["height"] set to the size
Resized(bp, size) == [bp EXCEPT !.metadata.width = size[1], !.metadata.height = size[2]]

InitProject ==
    /\ prompt \in Prompts
    /\ platform \in Platforms
    /\ format \in Formats
    /\ seed \in Seeds(MaxProjectSeedIdx)
    /\ hashKey \in [Procs -> 0..MaxHashKey]
    /\ hashKey[2] = hashKey[1]
    /\ run = 0
    /\ pc = "idle"
    /\ analysis = Unset
    /\ direction = Unset
    /\ colors = Unset
    /\ layout = Unset
    /\ copy = Unset
    /\ elements = Unset
    /\ canvas = Unset
    /\ blueprints = <<>>
    /\ scenes = <<>>
    /\ PremiumOff

\* blueprint_to_fabric(blueprint): it reads the Blueprint and assigns to none of it
Project ==
    /\ pc = "done"
    /\ Len(scenes) < MaxProjections
    /\ \E size \in CanvasSizes :
           scenes' = Append(scenes, BlueprintToFabric(Resized(blueprints[Len(blueprints)], size)))
    /\ UNCHANGED <<prompt, platform, format, seed, hashKey, run, pc, analysis, direction,
                   colors, layout, copy, elements, canvas, blueprints, premium>>

NextProject == FirstDirector \/ Generate \/ Project

SpecProject == InitProject /\ [][NextProject]_vars

(***************************************************************************)
(* One call of generate_creative_design for each way of writing the format. *)
(***************************************************************************)
AllFormats == {"post", "square", "story", "reel", "landscape", "portrait",
               "Square", "STORY", "Landscape", "LANDSCAPE", "banner", "wide", "squares", ""}

InitCanvas ==
    /\ prompt \in TypePrompts
    /\ platform \in Platforms
    /\ format \in AllFormats
    /\ seed \in Seeds(0)
    /\ hashKey \in [Procs -> 0..MaxHashKey]
    /\ hashKey[2] = hashKey[1]
    /\ run = 0
    /\ pc = "idle"
    /\ analysis = Unset
    /\ direction = Unset
    /\ colors = Unset
    /\ layout = Unset
    /\ copy = Unset
    /\ elements = Unset
    /\ canvas = Unset
    /\ blueprints = <<>>
    /\ scenes = <<>>
    /\ PremiumOff

SpecCanvas == InitCanvas /\ [][NextOnce]_vars

(***************************************************************************)
(* _invent_layout as a function of the signals it reads and of the seed,    *)
(* over every value of the threshold _seeded_float(offset=200).  An offer   *)
(* is extracted only from a prompt that has one of the has_offer words.     *)
(***************************************************************************)
MaxLayoutSeed == 999

BusinessScales == {"large", "small_local", "medium"}
Densities == {"dense", "moderate", "focused"}
SomeOffer == [type |-> "percentage", value |-> 20, text |-> "20% OFF"]

InitLayout ==
    /\ prompt = Unset
    /\ platform \in Platforms
    /\ format \in Formats
    /\ seed \in 0..MaxLayoutSeed
    /\ hashKey = [p \in Procs |-> 0]
    /\ run = 1
    /\ pc = "coloured"
    /\ analysis \in [business_scale : BusinessScales, has_offer : BOOLEAN,
                     offer_details : {NoOffer, SomeOffer}, excitement_level : {0, 6},
                     density_preference : Densities]
    /\ analysis.offer_details = SomeOffer => analysis.has_offer
    /\ direction = Unset
    /\ colors = Unset
    /\ layout = Unset
    /\ copy = Unset
    /\ elements = Unset
    /\ canvas = GetCanvasSize(format)
    /\ blueprints = <<>>
    /\ scenes = <<>>
    /\ PremiumOff

NextLayout == Phase3Layout

SpecLayout == InitLayout /\ [][NextLayout]_vars

(***************************************************************************)
(* premium_design_generator.generate_premium_design called on two threads  *)
(* of one interpreter, for two prompts with different seeds.  The module    *)
(* random has one generator for the whole process; every call on it is one  *)
(* step, and the threads' steps interleave in any order.  A value the       *)
(* generator returns is determined by the seed it was last given and by the *)
(* calls made on it since then, and is written as that pair.                *)
(***************************************************************************)
MaxPremiumSeed == 1

\* get_prompt_hash(prompt), for the prompts of the model
PremiumSeeds == 0..MaxPremiumSeed

\* the calls generate_background_shapes makes on random for its two circles:
\* width, height and opacity of each
ShapeCalls == <<"randint", "randint", "random", "randint", "randint", "random">>

\* random.seed(s)
RandomSeed(s) == [seed |-> s, calls |-> <<>>]

\* the value of random.randint(0, 15) or random.random() in generator state r
RandomValue(r, call) == [call |-> call, seed |-> r.seed, after |-> r.calls]

\* the state of the generator after the call
RandomNext(r, call) == [r EXCEPT !.calls = Append(@, call)]

InitPremium ==
    /\ prompt = Unset
    /\ platform \in Platforms
    /\ format \in Formats
    /\ seed = 0
    /\ hashKey = [p \in Procs |-> 0]
    /\ run = 0
    /\ pc = "idle"
    /\ analysis = Unset
    /\ direction = Unset
    /\ colors = Unset
    /\ layout = Unset
    /\ copy = Unset
    /\ elements = Unset
    /\ canvas = Unset
    /\ blueprints = <<>>
    /\ scenes = <<>>
    /\ rng = RandomSeed(0)
    /\ tpc = [t \in Threads |-> "called"]
    /\ tseed \in [Threads -> PremiumSeeds]
    /\ tseed[1] # tseed[2]
    /\ tshapes = [t \in Threads |-> <<>>]

\* generate_premium_design: seed = get_prompt_hash(prompt); random.seed(seed)
PremiumSeed(t) ==
    /\ tpc[t] = "called"
    /\ rng' = RandomSeed(tseed[t])
    /\ tpc' = [tpc EXCEPT ![t] = "seeded"]
    /\ UNCHANGED <<director, tseed, tshapes>>

\* generate_background_shapes: shapes = []; random.seed(seed)
ShapesSeed(t) ==
    /\ tpc[t] = "seeded"
    /\ rng' = RandomSeed(tseed[t])
    /\ tshapes' = [tshapes EXCEPT ![t] = <<>>]
    /\ tpc' = [tpc EXCEPT ![t] = "drawing"]
    /\ UNCHANGED <<director, tseed>>

\* generate_background_shapes: the next call on random of the loop over glow_pos
ShapesDraw(t) ==
    /\ tpc[t] = "drawing"
    /\ Len(tshapes[t]) < Len(ShapeCalls)
    /\ tshapes' = [tshapes EXCEPT ![t] = Append(@, RandomValue(rng, ShapeCalls[Len(@) + 1]))]
    /\ rng' = RandomNext(rng, ShapeCalls[Len(tshapes[t]) + 1])
    /\ UNCHANGED <<director, tpc, tseed>>

\* generate_accent_shapes: random.seed(seed + 100); it makes no call on random
\* after that, nor does the rest of generate_premium_design
AccentSeed(t) ==
    /\ tpc[t] = "drawing"
    /\ Len(tshapes[t]) = Len(ShapeCalls)
    /\ rng' = RandomSeed(tseed[t] + 100)
    /\ tpc' = [tpc EXCEPT ![t] = "returned"]
    /\ UNCHANGED <<director, tseed, tshapes>>

NextPremium ==
    \E t \in Threads : PremiumSeed(t) \/ ShapesSeed(t) \/ ShapesDraw(t) \/ AccentSeed(t)

SpecPremium == InitPremium /\ [][NextPremium]_vars

(***************************************************************************)
(* _create_custom_palette as a function of the four signals it reads and   *)
(* of the seed.  Every combination of the four is the analysis of some     *)
(* prompt: the keyword tables that decide them leave each free of the      *)
(* others.                                                                 *)
(***************************************************************************)
BusinessTypes == {BusinessIndicators[k][1] : k \in 1..Len(BusinessIndicators)} \cup {"general_business"}
EmotionalTones == {Emotions[k][1] : k \in 1..Len(Emotions)} \cup {"neutral"}
ColorTemperatures == {"warm", "cool", "neutral"}
ContrastLevels == {"high", "low", "medium"}

InitPalette ==
    /\ prompt = Unset
    /\ platform \in Platforms
    /\ format \in Formats
    /\ seed \in Seeds(MaxPaletteSeedIdx)
    /\ hashKey = [p \in Procs |-> 0]
    /\ run = 1
    /\ pc = "directed"
    /\ analysis \in [business_type : BusinessTypes, emotional_tone : EmotionalTones,
                     color_temperature : ColorTemperatures, contrast_level : ContrastLevels]
    /\ direction = Unset
    /\ colors = Unset
    /\ layout = Unset
    /\ copy = Unset
    /\ elements = Unset
    /\ canvas = GetCanvasSize(format)
    /\ blueprints = <<>>
    /\ scenes = <<>>
    /\ PremiumOff

NextPalette == Phase2Palette

SpecPalette == InitPalette /\ [][NextPalette]_vars


(***************************************************************************)
(* Properties of the returned Blueprints                                   *)
(***************************************************************************)
\* the Blueprint the last finished call returned
Last == blueprints[Len(blueprints)]

LaidOut == pc \in {"laid_out", "written", "constructed", "done"}

CrossProcessDeterminism == Len(blueprints) >= 3 => blueprints[3] = blueprints[1]

\* position and size of e, in percent of the canvas
ElementInBounds(e) ==
    /\ 0 <= e.position.x /\ e.position.x <= Pct(100)
    /\ 0 <= e.position.y /\ e.position.y <= Pct(100)
    /\ 0 < e.size.width /\ e.size.width <= Pct(100)
    /\ 0 < e.size.height /\ e.size.height <= Pct(100)

\* C3: every element of a Blueprint has 0 <= x, y <= 100 and 0 < width, height <= 100.
GeometryBounds ==
    pc \in {"constructed", "done"} => \A k \in 1..Len(elements) : ElementInBounds(elements[k])

ColorFields == {"accent", "secondary", "background_primary", "background_secondary",
                "text_primary", "text_secondary"}
HexSet == {Ch(HexChars, i) : i \in 1..16}
IsHexColor(c) == Len(c) = 7 /\ Ch(c, 1) = "#" /\ \A i \in 2..7 : Ch(c, i) \in HexSet
ChannelsOf(a, f) == HslChannels(PaletteHsl(a)[f][1], PaletteHsl(a)[f][2], PaletteHsl(a)[f][3])

\* C4: every colour of the palette is "#" and six hexadecimal digits, every RGB
\* channel hsl_to_hex computes lies in 0..255, and the gradient has at least one stop.
PaletteValid ==
    pc = "coloured" =>
        /\ \A f \in ColorFields : IsHexColor(colors[f])
        /\ \A f \in ColorFields : \A i \in 1..3 : ChannelsOf(analysis, f)[i] \in 0..255
        /\ Len(colors.background_colors) >= 1
        /\ \A i \in 1..Len(colors.background_colors) : IsHexColor(colors.background_colors[i])

\* a negative hue (fitness_gym: 0 + a draw from -15..15) went through hsl_to_hex
PaletteValidWitness ==
    /\ pc = "coloured"
    /\ analysis.business_type = "fitness_gym"
    /\ BaseHue(analysis) < 0
    /\ analysis.contrast_level = "low"

ZoneInBounds(z) == \A f \in {"x", "y", "width", "height"} : 0 <= z[f] /\ z[f] <= Pct(100)

\* C6: every zone of the layout has x, y, width and height within [0, 100].
ZoneBounds == LaidOut => \A z \in DOMAIN layout.zones : ZoneInBounds(layout.zones[z])

\* C7: walking the hierarchy in order, each zone starts at or below the bottom
\* edge of the zone before it.
NoVerticalOverlap ==
    LaidOut =>
        LET h == direction.hierarchy
        IN  \A k \in 2..Len(h) :
                layout.zones[h[k]].y >= layout.zones[h[k - 1]].y + layout.zones[h[k - 1]].height

\* four zones at the widest spacing, the last one starting below the canvas
NoVerticalOverlapWitness ==
    /\ pc = "done"
    /\ Len(direction.hierarchy) = 4
    /\ analysis.density_preference = "focused"
    /\ layout.zones[direction.hierarchy[4]].y > Pct(100)

\* the prefix next_id was called with: the id without its "_<counter>"
IdPrefix(id) == SubSeq(id, 1, SetMax({i \in 1..Len(id) : Ch(id, i) = "_"}) - 1)

\* the zones whose branch of the element loop emits an element with this prefix
SourceZones(prefix) ==
    IF prefix \in {"offer_bg", "offer_text"} THEN {"offer"}
    ELSE IF prefix = "headline" THEN {"brand", "headline"}
    ELSE IF prefix = "subheadline" THEN {"value_prop", "tagline"}
    ELSE IF prefix = "trust" THEN {"trust_signals"}
    ELSE IF prefix \in {"cta_bg", "cta_text"} THEN {"cta"}
    ELSE IF prefix = "details" THEN {"details"}
    ELSE {}

ContentPrefixes == {"offer_bg", "offer_text", "headline", "subheadline", "trust",
                    "cta_bg", "cta_text", "details"}

WithinX(e, z) == z.x <= e.position.x /\ e.position.x + e.size.width <= z.x + z.width
WithinY(e, z) == z.y <= e.position.y /\ e.position.y + e.size.height <= z.y + z.height

\* the zone the divider is derived from
RefZone == IF "brand" \in DOMAIN layout.zones THEN layout.zones["brand"] ELSE layout.zones["headline"]

ContentWithin(e) ==
    \E z \in SourceZones(IdPrefix(e.id)) \cap DOMAIN layout.zones :
        WithinX(e, layout.zones[z]) /\ WithinY(e, layout.zones[z])

\* C8, as claimed: every content element and the accent divider lie inside the
\* rectangle of the zone that produced them.
ElementsWithinZone ==
    pc \in {"constructed", "done"} =>
        \A k \in 1..Len(elements) :
            /\ IdPrefix(elements[k].id) \in ContentPrefixes => ContentWithin(elements[k])
            /\ IdPrefix(elements[k].id) = "divider" =>
                   WithinX(elements[k], RefZone) /\ WithinY(elements[k], RefZone)

\* C8, amended: every content element lies inside the rectangle of its source
\* zone; the accent divider lies within the horizontal extent of the brand
\* (else headline) zone and starts 2 units below the bottom edge of that zone.
ContentWithinZone ==
    pc \in {"constructed", "done"} =>
        \A k \in 1..Len(elements) :
            /\ IdPrefix(elements[k].id) \in ContentPrefixes => ContentWithin(elements[k])
            /\ IdPrefix(elements[k].id) = "divider" =>
                   /\ WithinX(elements[k], RefZone)
                   /\ elements[k].position.y = RefZone.y + RefZone.height + Pct(2)

ContentWithinZoneWitness ==
    /\ pc = "done"
    /\ layout.alignment = "right"
    /\ {"offer_bg", "offer_text", "headline", "cta_bg", "cta_text", "divider"}
           \subseteq {IdPrefix(elements[k].id) : k \in 1..Len(elements)}

\* C9: when the extractor yields a brand name, the headline is non-empty and
\* contains the brand name, on the offer branch and for every pick from a phrase bank.
BrandSubstitution ==
    pc = "done" /\ Last.analysis.brand_name # None =>
        /\ Last.copy.headline # ""
        /\ Contains(Last.copy.headline, Last.analysis.brand_name)

\* a phrase-bank pick that puts the brand inside the phrase
BrandSubstitutionWitness ==
    /\ pc = "done"
    /\ Last.analysis.brand_name = "Zed"
    /\ Last.analysis.business_type = "beauty_salon"
    /\ Last.copy.headline = "Experience Zed\nWhere Beauty Meets Care"

MatchesPct(pl) == \E i \in 1..Len(pl) : PctEnd(pl, i) > 0
MatchesFlat(pl) == \E i \in 1..Len(pl) : FlatGroup(pl, i)[2] > 0
MatchesFree(pl) == \E i \in 1..Len(pl) : FreeGroup(pl, i)[2] > 0
MatchesSale(pl) == Contains(pl, "sale")

\* the digits of the first match of (\d+)\s*% in the lower-cased prompt
FirstPctDigits(pl) ==
    LET i == SetMin({j \in 1..Len(pl) : PctEnd(pl, j) > 0})
    IN  SubSeq(pl, i, PctEnd(pl, i))

\* the offer that the priority order percentage, flat, "free X", "sale" selects
PriorityHolds(pl, o) ==
    /\ MatchesPct(pl) => o.type = "percentage" /\ o.value = ParseInt(FirstPctDigits(pl))
    /\ ~MatchesPct(pl) /\ MatchesFlat(pl) => o.type = "flat"
    /\ ~MatchesPct(pl) /\ ~MatchesFlat(pl) /\ MatchesFree(pl) => o.type = "freebie"
    /\ ~MatchesPct(pl) /\ ~MatchesFlat(pl) /\ ~MatchesFree(pl) /\ MatchesSale(pl)
           => o.type = "sale"
    /\ ~MatchesPct(pl) /\ ~MatchesFlat(pl) /\ ~MatchesFree(pl) /\ ~MatchesSale(pl)
           => o = NoOffer

OfferPriorityOnReturn ==
    pc = "created" => PriorityHolds(ToLower(prompt), analysis.offer_details)

(***************************************************************************)
(* C11.  Category selection.                                                *)
(***************************************************************************)
\* the table entries with at least one keyword occurring in the text
HitEntries(pl) ==
    {k \in 1..Len(BusinessIndicators) :
        \E i \in 1..Len(BusinessIndicators[k][2]) : Contains(pl, BusinessIndicators[k][2][i])}

\* C11: the business type is the tag of the first entry of the table, in table
\* order, that has at least one keyword in the lower-cased prompt, however many
\* hits later entries have; with no hit in any entry it is "general_business".
CategoryFirstHit ==
    pc = "created" =>
        LET K == HitEntries(ToLower(prompt))
        IN  /\ K = {} => analysis.business_type = "general_business"
            /\ K # {} =>
                   \E k \in K : /\ analysis.business_type = BusinessIndicators[k][1]
                                /\ \A j \in K : k <= j

\* an analysed prompt whose chosen entry has fewer hits than a later entry
CategoryFirstHitWitness ==
    /\ pc = "created"
    /\ analysis.business_type = "retail_electronics"
    /\ Hits(ToLower(prompt), BusinessIndicators[1][2]) = 1
    /\ Hits(ToLower(prompt), BusinessIndicators[10][2]) >= 2

(***************************************************************************)
(* C12, C13.  The projection of a Blueprint.                                *)
(***************************************************************************)
\* the percentages of element el are those recomputed from the pixel fields of
\* its scene object obj on a canvas of the given size: x and y from left and
\* top, width and height from the fields of those names, or from the diameter
\* of an object that has a radius
RoundTrips(el, obj, width, height) ==
    /\ obj.left = el.position.x * width
    /\ obj.top = el.position.y * height
    /\ \/ "width" \in DOMAIN obj /\ obj.width = el.size.width * width
       \/ "radius" \in DOMAIN obj /\ 2 * obj.radius = el.size.width * width
    /\ \/ "height" \in DOMAIN obj /\ obj.height = el.size.height * height
       \/ "radius" \in DOMAIN obj /\ 2 * obj.radius = el.size.height * height

\* the scene was projected on the canvas of this size
ProjectedAt(sc, width, height) ==
    sc.objects[1].width = Px(width) /\ sc.objects[1].height = Px(height)

\* C12: after a projection at 1080x1080 the percentage x, y, width and height of
\* every element are recomputed from the pixel fields of its scene object and
\* equal the Blueprint's, for text elements, rectangles and circles alike.
ProjectionRoundTrip ==
    \A k \in 1..Len(scenes) :
        ProjectedAt(scenes[k], 1080, 1080) =>
            \A i \in 1..Len(Last.elements) :
                /\ i + 1 <= Len(scenes[k].objects)
                /\ RoundTrips(Last.elements[i], scenes[k].objects[i + 1], 1080, 1080)

\* C13: each projection of the Blueprint, whatever the canvas size, emits the one
\* background object and then exactly one object per element, in the order of
\* the element list, and the Blueprint still holds the elements, with their
\* percentages, that generate() put in it.
ReprojectionStable ==
    scenes # <<>> =>
        /\ Last.elements = elements
        /\ \A k \in 1..Len(scenes) :
               /\ Len(scenes[k].objects) = 1 + Len(Last.elements)
               /\ "id" \notin DOMAIN scenes[k].objects[1]
               /\ scenes[k].objects[1].selectable = FALSE
               /\ \A i \in 1..Len(Last.elements) :
                      scenes[k].objects[i + 1].id = Last.elements[i].id

\* two projections of one Blueprint at different sizes, with circles, rectangles
\* and text among its elements
ReprojectionStableWitness ==
    /\ Len(scenes) = 2
    /\ ~ProjectedAt(scenes[2], scenes[1].objects[1].width \div PxScale,
                    scenes[1].objects[1].height \div PxScale)
    /\ \E i \in 1..Len(Last.elements) :
           Last.elements[i].type = "shape" /\ Last.elements[i].shape_type = "circle"
    /\ \E i \in 1..Len(Last.elements) :
           Last.elements[i].type = "shape" /\ Last.elements[i].shape_type = "rect"
    /\ \E i \in 1..Len(Last.elements) : Last.elements[i].type = "text"

(***************************************************************************)
(* C14.  Concurrent requests.                                               *)
(***************************************************************************)
\* what generate_background_shapes draws for seed s when no other thread runs
ShapesAlone(s) ==
    [k \in 1..Len(ShapeCalls) |->
        [call |-> ShapeCalls[k], seed |-> s, after |-> SubSeq(ShapeCalls, 1, k - 1)]]

\* C14: of two requests for different prompts running on two threads, with their
\* steps interleaved in any order, each returns what it returns when it runs
\* alone; for generate_premium_design, the background shapes drawn for its seed.
RequestsIndependent ==
    \A t \in Threads : tpc[t] = "returned" => tshapes[t] = ShapesAlone(tseed[t])

EndsPastCanvas(k) ==
    layout.zones[direction.hierarchy[k]].y + layout.zones[direction.hierarchy[k]].height
        > Pct(100)

\* C16: a primary zone ends past 100 only in a four-entry hierarchy at dense
\* density; for every other density and hierarchy length every primary zone
\* ends at or before 100.
OverflowOnlyDenseAndLong ==
    LaidOut =>
        \A k \in 1..Len(direction.hierarchy) :
            EndsPastCanvas(k) =>
                Len(direction.hierarchy) = 4 /\ analysis.density_preference = "dense"

\* Where the zones do pass the canvas: the last primary zone ends past 100 at
\* focused density, with three entries and with four, and at no other density.
OverflowAtFocused ==
    LaidOut =>
        /\ analysis.density_preference = "focused" => EndsPastCanvas(Len(direction.hierarchy))
        /\ analysis.density_preference # "focused" =>
               \A k \in 1..Len(direction.hierarchy) : ~EndsPastCanvas(k)

\* a four-entry hierarchy at dense density, laid out
DenseAndLong ==
    LaidOut /\ Len(direction.hierarchy) = 4 /\ analysis.density_preference = "dense"

\* a three-entry hierarchy at focused density, laid out
FocusedAndShort ==
    LaidOut /\ Len(direction.hierarchy) = 3 /\ analysis.density_preference = "focused"

(***************************************************************************)
(* C17.  The vertical allocation.                                           *)
(***************************************************************************)
\* the weights as stated, times ten: 0.6 for the trust entry under either of its
\* names, and the table's 0.8, 0.6, 0.5 for value_prop, tagline and details
StatedWeight(z) ==
    IF z = "offer" THEN 15 ELSE IF z = "brand" THEN 12 ELSE IF z = "headline" THEN 14
    ELSE IF z \in {"trust", "trust_signals"} THEN 6 ELSE IF z = "cta" THEN 7
    ELSE IF z = "value_prop" THEN 8 ELSE IF z = "tagline" THEN 6 ELSE 5

RECURSIVE StatedTotal(_)
StatedTotal(h) == IF h = <<>> THEN 0 ELSE StatedWeight(Head(h)) + StatedTotal(Tail(h))

RECURSIVE HeightSum(_, _)
HeightSum(zones, h) ==
    IF h = <<>> THEN 0 ELSE zones[Head(h)].height + HeightSum(zones, Tail(h))

\* C17: the height of each hierarchy entry's zone is 70 times its weight over the
\* sum of the weights of the hierarchy, the weights being offer 1.5, brand 1.2,
\* headline 1.4, trust 0.6 and cta 0.7, the trust entry weighing 0.6 in every
\* hierarchy that has one; and the heights of a hierarchy sum to 70.
VerticalAllocation ==
    LaidOut =>
        /\ \A k \in 1..Len(direction.hierarchy) :
               layout.zones[direction.hierarchy[k]].height * StatedTotal(direction.hierarchy)
                   = Pct(70) * StatedWeight(direction.hierarchy[k])
        /\ HeightSum(layout.zones, direction.hierarchy) = Pct(70)

\* What does hold of the heights: they are in the proportion of the weights that
\* importance_weights.get(zone_name, 0.8) gives, and sum to 70.
AllocationByTable ==
    LaidOut =>
        /\ \A k \in 1..Len(direction.hierarchy) :
               layout.zones[direction.hierarchy[k]].height * TotalWeight(direction.hierarchy)
                   = Pct(70) * ImportanceWeight(direction.hierarchy[k])
        /\ HeightSum(layout.zones, direction.hierarchy) = Pct(70)

(***************************************************************************)
(* C18.  The trust-signal text.                                             *)
(***************************************************************************)
\* the names a hierarchy gives its trust block
TrustEntries == {"trust", "trust_signals"}

\* the element list has a text element carrying the trust line inside zone z
TrustTextIn(z) ==
    \E i \in 1..Len(elements) :
        /\ elements[i].type = "text"
        /\ elements[i].content = copy.trust_line
        /\ WithinX(elements[i], z) /\ WithinY(elements[i], z)

\* C18: in every hierarchy with a trust block, [offer, brand, cta, trust] and
\* [brand, value_prop, trust_signals, cta], a non-empty trust line is emitted as
\* a text element placed in the zone of that entry.
TrustTextEmitted ==
    pc \in {"constructed", "done"} /\ copy.trust_line # "" =>
        \A k \in 1..Len(direction.hierarchy) :
            direction.hierarchy[k] \in TrustEntries =>
                TrustTextIn(layout.zones[direction.hierarchy[k]])

\* In the hierarchy whose trust block is named trust_signals the trust line is
\* emitted in its zone.
TrustSignalsTextEmitted ==
    pc \in {"constructed", "done"} /\ copy.trust_line # "" =>
        \A k \in 1..Len(direction.hierarchy) :
            direction.hierarchy[k] = "trust_signals" =>
                TrustTextIn(layout.zones[direction.hierarchy[k]])

\* the small/local hierarchy assembled with a trust line
TrustSignalsAssembled ==
    /\ pc = "done"
    /\ copy.trust_line # ""
    /\ direction.hierarchy = <<"brand", "value_prop", "trust_signals", "cta">>

(***************************************************************************)
(* C19.  The accent motif.                                                  *)
(***************************************************************************)
\* the id prefixes of the three motifs: L-corner lines, dot grid, accent line
MotifPrefixes == {"corner", "dot", "accent_line"}

\* the motifs that have an element in the list
MotifsIn(els) == {IdPrefix(els[i].id) : i \in 1..Len(els)} \cap MotifPrefixes

\* C19: the element list of every Blueprint has exactly one accent motif, one of
\* the three kinds: each outcome of the seeded discriminator emits a motif.
OneAccentMotif ==
    pc \in {"constructed", "done"} => Cardinality(MotifsIn(elements)) = 1

\* The discriminator has four outcomes: the element list has one motif, except
\* that it has none when (seed + 404) % 4 = 3.
AccentMotifByOutcome ==
    pc \in {"constructed", "done"} =>
        Cardinality(MotifsIn(elements)) = IF (seed + 404) % 4 = 3 THEN 0 ELSE 1

(***************************************************************************)
(* C20.  The content hierarchy.                                             *)
(***************************************************************************)
\* the hierarchy the decision tree gives, from the offer extracted, the scale
\* and the excitement level
TreeHierarchy ==
    IF analysis.offer_details.type # "none" THEN <<"offer", "brand", "cta", "trust">>
    ELSE IF analysis.business_scale = "small_local"
    THEN <<"brand", "value_prop", "trust_signals", "cta">>
    ELSE IF analysis.excitement_level > 5 THEN <<"headline", "brand", "details", "cta">>
    ELSE <<"brand", "tagline", "cta">>

\* the entries whose branch of the element loop emits whatever the copy is
AlwaysEmitted == {"brand", "headline", "value_prop", "tagline", "cta"}

\* C20: the hierarchy is [offer, brand, cta, trust] when an offer exists, else
\* [brand, value_prop, trust_signals, cta] at small/local scale, else [headline,
\* brand, details, cta] at high excitement, else [brand, tagline, cta]; the zones
\* are planned for its entries, the content elements are assembled from those
\* zones, and the Blueprint reports it.
HierarchyDecision ==
    pc \in {"directed", "coloured", "laid_out", "written", "constructed", "done"} =>
        /\ direction.hierarchy = TreeHierarchy
        /\ LaidOut =>
               DOMAIN layout.zones \ {"footer"}
                   = {direction.hierarchy[k] : k \in 1..Len(direction.hierarchy)}
        /\ pc \in {"constructed", "done"} =>
               /\ \A i \in 1..Len(elements) :
                      IdPrefix(elements[i].id) \in ContentPrefixes =>
                          \E k \in 1..Len(direction.hierarchy) :
                              /\ direction.hierarchy[k] \in SourceZones(IdPrefix(elements[i].id))
                              /\ WithinY(elements[i], layout.zones[direction.hierarchy[k]])
               /\ \A k \in 1..Len(direction.hierarchy) :
                      direction.hierarchy[k] \in AlwaysEmitted =>
                          \E i \in 1..Len(elements) :
                              /\ direction.hierarchy[k] \in SourceZones(IdPrefix(elements[i].id))
                              /\ elements[i].position.y = layout.zones[direction.hierarchy[k]].y
        /\ pc = "done" =>
               /\ Last.creative_direction.hierarchy = direction.hierarchy
               /\ Last.metadata.creative_direction.hierarchy = direction.hierarchy

\* a returned Blueprint for a prompt with an offer and small/local scale
HierarchyDecisionWitness ==
    /\ pc = "done"
    /\ analysis.offer_details.type # "none"
    /\ analysis.business_scale = "small_local"
    /\ Last.creative_direction.hierarchy = <<"offer", "brand", "cta", "trust">>

(***************************************************************************)
(* C21.  The alignment draw.                                                *)
(***************************************************************************)
\* the alignment the draw gives the signals a
DrawnFor(a) == Alignment(a)

\* C21: the alignment is left, center or right; and for a seed for which the
\* default weights choose center, the weights of large scale and the weights of
\* an offer choose center too.
CenterNudge ==
    pc = "laid_out" =>
        /\ layout.alignment \in {"left", "center", "right"}
        /\ DrawnFor([analysis EXCEPT !.business_scale = "medium", !.has_offer = FALSE,
                                     !.offer_details = NoOffer]) = "center"
               => /\ DrawnFor([analysis EXCEPT !.business_scale = "large"]) = "center"
                  /\ DrawnFor([analysis EXCEPT !.business_scale = "medium", !.has_offer = TRUE])
                         = "center"

\* a layout for an offer at a threshold where the default weights choose center
CenterNudgeWitness ==
    /\ pc = "laid_out"
    /\ analysis.has_offer /\ analysis.business_scale = "medium"
    /\ layout.alignment = "center"
    /\ (seed + 200) % 1000 \in 400..749

(***************************************************************************)
(* C22.  The footer zone.                                                   *)
(***************************************************************************)
\* the zones of the hierarchy entries
PrimaryZones == DOMAIN layout.zones \ {"footer"}

\* the bottom edge of the lowest primary zone
PrimaryBottom == SetMax({layout.zones[z].y + layout.zones[z].height : z \in PrimaryZones})

\* two zones share no area
Disjoint(f, z) ==
    \/ f.y >= z.y + z.height \/ z.y >= f.y + f.height
    \/ f.x >= z.x + z.width \/ z.x >= f.x + f.width

FooterClear ==
    "footer" \in DOMAIN layout.zones =>
        \A z \in PrimaryZones : Disjoint(layout.zones["footer"], layout.zones[z])

\* C22, as claimed: the footer zone is there exactly when the height left below
\* the primary zones is more than 15, and then it overlaps no primary zone.
FooterByResidual ==
    pc = "laid_out" =>
        /\ "footer" \in DOMAIN layout.zones <=> Pct(100) - PrimaryBottom > Pct(15)
        /\ FooterClear

\* C22, as the code has it: the footer zone is there exactly when the height
\* left below the primary zones and one more spacing is more than 15, and then
\* it overlaps no primary zone.
FooterByCursor ==
    pc = "laid_out" =>
        /\ "footer" \in DOMAIN layout.zones
               <=> Pct(100) - (PrimaryBottom + Pct(Spacing(analysis.density_preference))) > Pct(15)
        /\ FooterClear

\* a layout with the footer below its three primary zones
FooterByCursorWitness ==
    /\ pc = "laid_out"
    /\ "footer" \in DOMAIN layout.zones
    /\ Cardinality(PrimaryZones) = 3
    /\ PrimaryBottom = Pct(82)

(***************************************************************************)
(* C23.  The paint order of the element list.                               *)
(***************************************************************************)
\* the group of an element, by the prefix of its id: glow circles 1, accent
\* motif 2, content 3, divider 4
PaintGroup(e) ==
    IF IdPrefix(e.id) = "glow" THEN 1
    ELSE IF IdPrefix(e.id) \in MotifPrefixes THEN 2
    ELSE IF IdPrefix(e.id) = "divider" THEN 4
    ELSE 3

\* the hierarchy entry a content element was built for: the entry that emits
\* its prefix and whose zone holds its top edge
EntryOf(e) ==
    CHOOSE k \in 1..Len(direction.hierarchy) :
        /\ direction.hierarchy[k] \in SourceZones(IdPrefix(e.id))
        /\ layout.zones[direction.hierarchy[k]].y <= e.position.y
        /\ e.position.y <= layout.zones[direction.hierarchy[k]].y
                               + layout.zones[direction.hierarchy[k]].height

GlowCount == Cardinality({i \in 1..Len(elements) : IdPrefix(elements[i].id) = "glow"})

\* C23: the element list is in paint order: the glow circles, none or two and
\* there only for medium or heavy visual weight, then the accent motif, then the
\* content elements in the order of the hierarchy, and the accent divider last;
\* the rectangle of the offer badge and of the CTA comes immediately before its
\* text.
PaintOrder ==
    pc \in {"constructed", "done"} =>
        /\ \A i \in 1..(Len(elements) - 1) :
               PaintGroup(elements[i]) <= PaintGroup(elements[i + 1])
        /\ GlowCount = IF analysis.visual_weight \in {"medium", "heavy"} THEN 2 ELSE 0
        /\ IdPrefix(elements[Len(elements)].id) = "divider"
        /\ \A i \in 1..(Len(elements) - 1) :
               PaintGroup(elements[i]) = 3 /\ PaintGroup(elements[i + 1]) = 3
                   => EntryOf(elements[i]) <= EntryOf(elements[i + 1])
        /\ \A i \in 1..Len(elements) :
               /\ IdPrefix(elements[i].id) = "offer_bg"
                      => IdPrefix(elements[i + 1].id) = "offer_text"
               /\ IdPrefix(elements[i].id) = "cta_bg"
                      => IdPrefix(elements[i + 1].id) = "cta_text"
               /\ IdPrefix(elements[i].id) = "offer_text"
                      => i > 1 /\ IdPrefix(elements[i - 1].id) = "offer_bg"
               /\ IdPrefix(elements[i].id) = "cta_text"
                      => i > 1 /\ IdPrefix(elements[i - 1].id) = "cta_bg"

\* a list with the two glow circles, a motif, an offer badge, a CTA and the divider
PaintOrderWitness ==
    /\ pc = "done"
    /\ GlowCount = 2
    /\ MotifsIn(elements) # {}
    /\ \E i \in 1..Len(elements) : IdPrefix(elements[i].id) = "offer_bg"
    /\ \E i \in 1..Len(elements) : IdPrefix(elements[i].id) = "cta_bg"

(***************************************************************************)
(* C24.  The offsets of the seeded choices.                                 *)
(***************************************************************************)
\* the copy was written with the headline picked at offset 300 and the trust
\* line picked at offset 330, each from a bank of three
BothPicked ==
    /\ pc \in {"written", "constructed", "done"}
    /\ analysis.brand_name # None
    /\ ~(analysis.has_offer /\ OfferPresent(analysis))
    /\ analysis.trust_signals_needed
    /\ Len(BrandHeadlines(analysis)) = 3
    /\ Len(TrustLines(analysis)) = 3

\* the place of an entry in its bank, counted from 0
PlaceIn(bank, v) == (CHOOSE i \in 1..Len(bank) : bank[i] = v) - 1

\* the seeds the indices are compared over
SeedRange == 0..MaxLayoutSeed

\* C24: for the headline pick at offset 300 and the trust-line pick at offset
\* 330, both over three entries, there are seeds for which the two indices
\* differ, and the index of one is not a function of the index of the other.
OffsetsDecorrelate ==
    BothPicked =>
        /\ \E s \in SeedRange : ChoiceIndex(s, 300, 3) # ChoiceIndex(s, 330, 3)
        /\ \E s1, s2 \in SeedRange :
               /\ ChoiceIndex(s1, 300, 3) = ChoiceIndex(s2, 300, 3)
               /\ ChoiceIndex(s1, 330, 3) # ChoiceIndex(s2, 330, 3)

\* What the offsets give: in every copy written with both picks the headline
\* and the trust line have the same place in their banks, the place
\* (seed + 300) % 3, because 330 - 300 is a multiple of 3.
PicksCoincide ==
    BothPicked =>
        /\ PlaceIn(BrandHeadlines(analysis), copy.headline) = ChoiceIndex(seed, 300, 3)
        /\ PlaceIn(TrustLines(analysis), copy.trust_line) = ChoiceIndex(seed, 300, 3)

(***************************************************************************)
(* C25.  The arguments of hsl_to_hex.                                       *)
(***************************************************************************)
\* C25: in every call of hsl_to_hex that _create_custom_palette makes, the hue
\* is within [0, 360], the saturation within [0, 100] and the lightness within
\* [0, 100], and the saturation derived from the emotion is within [30, 100].
HslInputsClamped ==
    pc = "coloured" =>
        /\ \A f \in DOMAIN PaletteHsl(analysis) :
               /\ PaletteHsl(analysis)[f][1] \in 0..360
               /\ PaletteHsl(analysis)[f][2] \in 0..100
               /\ PaletteHsl(analysis)[f][3] \in 0..100
        /\ Saturation(analysis) \in 30..100

\* What is bounded: saturation and lightness in every call, and the hue of the
\* two calls that reduce it modulo 360; the base hue is passed as it is.
HslInputsButBaseHue ==
    pc = "coloured" =>
        /\ \A f \in DOMAIN PaletteHsl(analysis) :
               /\ PaletteHsl(analysis)[f][2] \in 0..100
               /\ PaletteHsl(analysis)[f][3] \in 0..100
               /\ PaletteHsl(analysis)[f][1] \in (0 - 15)..360
        /\ PaletteHsl(analysis).secondary[1] \in 0..359
        /\ PaletteHsl(analysis).background_secondary[1] \in 0..359
        /\ Saturation(analysis) \in 30..100

(***************************************************************************)
(* C26.  has_offer and offer_details.                                       *)
(***************************************************************************)
OfferCtas == <<"Shop Now", "Claim Offer", "Get Deal", "Save Today">>

\* C26: has_offer is true exactly when offer details are extracted, so the
\* decisions keyed on has_offer alone (the offer CTA bank, the centre-nudged
\* alignment weights) are taken exactly when the offer hierarchy and the offer
\* text of the copy are produced.
OfferFlagMatchesDetails ==
    pc = "written" =>
        /\ analysis.has_offer <=> OfferPresent(analysis)
        /\ Ctas(analysis) = OfferCtas <=> direction.hierarchy[1] = "offer"
        /\ (analysis.business_scale # "large" /\ AlignmentWeights(analysis) = <<250, 500, 250>>)
               => direction.hierarchy[1] = "offer"
        /\ Ctas(analysis) = OfferCtas <=> copy.offer_text # ""

\* One direction: extracted details imply has_offer, and the offer hierarchy
\* and the offer text go with the offer CTA bank.
DetailsImplyOfferFlag ==
    pc = "written" =>
        /\ OfferPresent(analysis) => analysis.has_offer
        /\ direction.hierarchy[1] = "offer" => Ctas(analysis) = OfferCtas
        /\ direction.hierarchy[1] = "offer" => copy.offer_text = analysis.offer_details.text
        /\ copy.offer_text # "" => Ctas(analysis) = OfferCtas

(***************************************************************************)
(* C27.  The headline and the CTA among the text elements.                  *)
(***************************************************************************)
\* the positions of the text elements whose content is s
TextsWith(s) ==
    {i \in 1..Len(elements) :
        /\ elements[i].type = "text"
        /\ "content" \in DOMAIN elements[i]
        /\ elements[i].content = s}

\* C27: in every Blueprint the headline of the copy is the content of exactly
\* one text element and the upper-cased CTA of the copy is the content of
\* exactly one text element.
HeadlineAndCtaOnce ==
    pc \in {"constructed", "done"} =>
        /\ Cardinality(TextsWith(copy.headline)) = 1
        /\ Cardinality(TextsWith(ToUpper(copy.cta))) = 1

\* The headline is rendered once or twice, twice under the announcement
\* hierarchy; the CTA is rendered once.
HeadlineAndCtaBounds ==
    pc \in {"constructed", "done"} =>
        /\ Cardinality(TextsWith(copy.headline)) \in {1, 2}
        /\ direction.hierarchy[1] = "headline" => Cardinality(TextsWith(copy.headline)) = 2
        /\ Cardinality(TextsWith(ToUpper(copy.cta))) = 1

\* the announcement hierarchy renders the headline in its "headline" zone and
\* again in its "brand" zone
HeadlineTwice ==
    /\ pc = "done"
    /\ direction.hierarchy = <<"headline", "brand", "details", "cta">>
    /\ Cardinality(TextsWith(copy.headline)) = 2

(***************************************************************************)
(* C28.  The resolved canvas size and FORMAT_SPECS.                         *)
(***************************************************************************)
\* the values of the AdFormat enum
AdFormats == {"square", "story", "landscape", "portrait", "wide", "banner"}

\* FORMAT_SPECS: <<width, height>> of a format of the enum
FormatSpecs(fmt) ==
    IF fmt = "square" THEN <<1080, 1080>>
    ELSE IF fmt = "story" THEN <<1080, 1920>>
    ELSE IF fmt = "landscape" THEN <<1200, 628>>
    ELSE IF fmt = "portrait" THEN <<1080, 1350>>
    ELSE IF fmt = "wide" THEN <<1920, 1080>>
    ELSE <<1200, 300>>

\* generate_design: the lookup of the size by the lower-cased format
DesignSize(fmt) ==
    LET f == ToLower(fmt)
    IN  IF f \in {"post", "square"} THEN <<1080, 1080>>
        ELSE IF f \in {"story", "reel"} THEN <<1080, 1920>>
        ELSE IF f = "landscape" THEN <<1200, 628>>
        ELSE IF f = "portrait" THEN <<1080, 1350>>
        ELSE <<1080, 1080>>

\* C28: for every format of the enum the canvas size the generators resolve
\* (_get_canvas_size, generate_design) is the size FORMAT_SPECS documents.
SizeAsDocumented ==
    (pc \notin {"idle", "raised"} /\ format \in AdFormats) =>
        /\ canvas = FormatSpecs(format)
        /\ DesignSize(format) = FormatSpecs(format)

\* The four formats both tables have agree with FORMAT_SPECS, and the two
\* generators resolve every format alike.
SizeAsDocumentedInTable ==
    pc \notin {"idle", "raised"} =>
        /\ format \in AdFormats \ {"wide", "banner"} => canvas = FormatSpecs(format)
        /\ format \in {"wide", "banner"} => canvas = <<1080, 1080>>
        /\ DesignSize(format) = canvas

(***************************************************************************)
(* generative_designer.extract_all_entities.                                *)
(***************************************************************************)
EndsWith(s, suffix) == StartsAt(s, Len(s) - Len(suffix) + 1, suffix)

\* (?:\s+[A-Z][a-zA-Z]*)* after position e: the end of the longest match
RECURSIVE CapsRunEnd(_, _)
CapsRunEnd(s, e) ==
    IF SpacesEnd(s, e) > 0 /\ Ch(s, SpacesEnd(s, e) + 1) \in UpperSet
    THEN CapsRunEnd(s, RunEnd(s, SpacesEnd(s, e) + 1, AlphaSet))
    ELSE e

\* ([A-Z][a-zA-Z]*(?:\s+[A-Z][a-zA-Z]*)*) at i: the end of the match, 0 when none
CapsEnd(s, i) ==
    IF Ch(s, i) \in UpperSet THEN CapsRunEnd(s, RunEnd(s, i, AlphaSet)) ELSE 0

\* re.findall of the capitalized sequences from position from on
RECURSIVE FindCapsSequences(_, _)
FindCapsSequences(s, from) ==
    LET I == {i \in from..Len(s) : CapsEnd(s, i) > 0}
    IN  IF I = {} THEN <<>>
        ELSE LET i == SetMin(I)
             IN  <<SubSeq(s, i, CapsEnd(s, i))>> \o FindCapsSequences(s, CapsEnd(s, i) + 1)

\* the alternatives of the marker group, in the order the pattern tries them
\* (the rupee sign is not a character of the model's prompts)
NumberMarkers == <<"%", "percent", "off", "rs", "inr">>

\* (\d+(?:\.\d+)?)\s*(%|percent|off|rs|inr)? at i, a digit: the end of group 1
NumberEnd(pl, i) ==
    LET e == RunEnd(pl, i, DigitSet)
    IN  IF Ch(pl, e + 1) = "." /\ Ch(pl, e + 2) \in DigitSet THEN RunEnd(pl, e + 2, DigitSet)
        ELSE e

\* the marker that follows group 1 and the optional whitespace, "" when none
MarkerAfter(pl, e) ==
    LET at == RunEnd(pl, e + 1, SpaceSet) + 1
        M  == {k \in 1..Len(NumberMarkers) : StartsAt(pl, at, NumberMarkers[k])}
    IN  IF M = {} THEN "" ELSE NumberMarkers[SetMin(M)]

\* re.findall of the numbers from position from on: the pairs <<number, marker>>
RECURSIVE FindNumbers(_, _)
FindNumbers(pl, from) ==
    LET I == {i \in from..Len(pl) : Ch(pl, i) \in DigitSet}
    IN  IF I = {} THEN <<>>
        ELSE LET i == SetMin(I)
                 e == NumberEnd(pl, i)
                 m == MarkerAfter(pl, e)
             IN  <<<<SubSeq(pl, i, e), m>>>>
                     \o FindNumbers(pl, RunEnd(pl, e + 1, SpaceSet) + Len(m) + 1)

DesignLocPrepositions == <<"in", "at", "near", "from", "of">>

\* (?:in|at|near|from|of)\s+([A-Z][a-z]+(?:\s+[A-Z][a-z]+)?) at i: <<start, end>>
\* of group 1, <<0, 0>> when no match
DesignLocGroup(s, i) ==
    LET K  == {k \in 1..Len(DesignLocPrepositions) : StartsAt(s, i, DesignLocPrepositions[k])}
        p  == IF K = {} THEN 0 ELSE i + Len(DesignLocPrepositions[SetMin(K)]) - 1
        w  == IF p > 0 THEN SpacesEnd(s, p) ELSE 0
        e1 == IF w > 0 THEN WordEnd(s, w + 1, UpperSet, LowerSet) ELSE 0
        w1 == IF e1 > 0 THEN SpacesEnd(s, e1) ELSE 0
        e2 == IF w1 > 0 THEN WordEnd(s, w1 + 1, UpperSet, LowerSet) ELSE 0
    IN  IF e1 = 0 THEN <<0, 0>> ELSE <<w + 1, IF e2 > 0 THEN e2 ELSE e1>>

\* re.findall of the locations from position from on
RECURSIVE FindLocations(_, _)
FindLocations(s, from) ==
    LET I == {i \in from..Len(s) : DesignLocGroup(s, i)[2] > 0}
    IN  IF I = {} THEN <<>>
        ELSE LET g == DesignLocGroup(s, SetMin(I))
             IN  <<SubSeq(s, g[1], g[2])>> \o FindLocations(s, g[2] + 1)

DesignStopWords ==
    {"the", "and", "for", "are", "but", "not", "you", "all", "can", "has", "her", "was", "one",
     "our", "out", "his", "have", "been", "would", "could", "there", "their", "will", "each",
     "make", "like", "into", "time", "very", "when", "come", "made", "find", "more", "from",
     "with", "that", "this", "what", "about", "which", "your"}

ActionSuffixes == <<"ing", "ate", "ize", "ify">>
DescriptorSuffixes == <<"ful", "ous", "ive", "able", "ible", "al", "ic">>

EndsWithAny(w, suffixes) == \E k \in 1..Len(suffixes) : EndsWith(w, suffixes[k])

\* generative_designer.extract_all_entities
ExtractAllEntities(s) ==
    LET caps        == FindCapsSequences(s, 1)
        proper      == SelectSeq(caps, LAMBDA c : Len(c) > 1)
        significant == SelectSeq(FindLongWords(ToLower(s), 1), LAMBDA w : w \notin DesignStopWords)
        properLower == {ToLower(proper[k]) : k \in 1..Len(proper)}
    IN  [proper_nouns |-> proper,
         numbers |-> FindNumbers(ToLower(s), 1),
         locations |-> FindLocations(s, 1),
         all_significant_words |-> significant,
         actions |-> SelectSeq(significant, LAMBDA w : EndsWithAny(w, ActionSuffixes)),
         descriptors |-> SelectSeq(significant, LAMBDA w :
                             ~EndsWithAny(w, ActionSuffixes) /\ EndsWithAny(w, DescriptorSuffixes)),
         objects |-> SelectSeq(significant, LAMBDA w :
                             /\ ~EndsWithAny(w, ActionSuffixes)
                             /\ ~EndsWithAny(w, DescriptorSuffixes)
                             /\ w \notin properLower)]

(***************************************************************************)
(* generative_designer.compute_prompt_metrics.  A metric is a fraction of   *)
(* MetricUnit, so that every product the layout truncates is exact.         *)
(***************************************************************************)
MetricUnit == 3000

CountOf(s, c) == Cardinality({i \in 1..Len(s) : Ch(s, i) = c})

\* str(n) of a pair of the numbers has "%" or "off" in it
PercentLike(n) == n[2] \in {"%", "off"}

\* any('%' in str(n) or 'off' in str(n) for n in numbers)
HasPercentage(numbers) == \E k \in 1..Len(numbers) : PercentLike(numbers[k])

\* metrics["commercial_intensity"]: 0.8, 0.4 or 0.1
CommercialIntensity(numbers) ==
    IF HasPercentage(numbers) THEN 2400 ELSE IF Len(numbers) > 0 THEN 1200 ELSE 300

\* generative_designer.compute_prompt_metrics (without the warmth, which only
\* the colours read)
ComputePromptMetrics(s, e) ==
    LET verbosity  == Min(WordCount(s) * 150, MetricUnit)
        energy     == Min((CountOf(s, "!") * 2 + CountOf(s, "?")) * 600, MetricUnit)
        commercial == CommercialIntensity(e.numbers)
        brand      == Min(Len(e.proper_nouns) * 1000, MetricUnit)
    IN  [verbosity |-> verbosity,
         complexity |-> Min(Len(s) * 20, MetricUnit),
         energy |-> energy,
         commercial_intensity |-> commercial,
         brand_focus |-> brand,
         locality |-> IF Len(e.locations) > 0 THEN MetricUnit ELSE 0,
         dynamism |-> Min(Len(e.actions) * 750, MetricUnit),
         descriptiveness |-> Min(Len(e.descriptors) * 600, MetricUnit),
         visual_weight |-> (3 * verbosity + 3 * commercial + 2 * energy + 2 * brand) \div 10]

\* int(metric * k)
Scaled(metric, k) == (metric * k) \div MetricUnit

(***************************************************************************)
(* generative_designer.compute_layout_from_prompt.  Positions and sizes of  *)
(* the zones are percentages in units of 1/Scale, as Pct gives them.        *)
(***************************************************************************)
\* the alignment, from the first letter of the first proper noun
DesignAlignment(e, m) ==
    IF Len(e.proper_nouns) > 0 THEN
        LET letter_val == IndexIn(UpperChars, Ch(e.proper_nouns[1], 1)) - 1
        IN  IF letter_val < 9 THEN "left" ELSE IF letter_val < 18 THEN "center" ELSE "right"
    ELSE IF m.brand_focus * 10 < 3 * MetricUnit THEN "center" ELSE "left"

\* the width of the text zones
DesignWidth(alignment, m) ==
    IF alignment = "center" THEN 75 + Scaled(m.complexity, 10) ELSE 65 + Scaled(m.complexity, 15)

\* base_x, in units of 1/Scale
DesignBaseX(alignment, m) ==
    IF alignment = "left" THEN Pct(8)
    ELSE IF alignment = "right" THEN Pct(92 - DesignWidth(alignment, m))
    ELSE Pct(100 - DesignWidth(alignment, m)) \div 2

Zone(x, y, width, height, priority) ==
    [x |-> x, y |-> y, width |-> width, height |-> height, priority |-> priority]

\* has_offer of the layout: commercial_intensity > 0.5
LayoutHasOffer(m) == m.commercial_intensity * 2 > MetricUnit

\* the zones, by name
DesignZones(e, m) ==
    LET alignment  == DesignAlignment(e, m)
        width      == DesignWidth(alignment, m)
        base_x     == DesignBaseX(alignment, m)
        top_margin == 15 - Scaled(m.verbosity, 8)
        has_offer  == LayoutHasOffer(m)
        y_primary  == top_margin + (IF has_offer THEN 8 + 3 ELSE 0)
        primary_height   == 20 + Scaled(m.brand_focus, 10)
        y_divider  == y_primary + primary_height + 2
        y_second   == y_divider + 4
        secondary_height == 8 + Scaled(m.descriptiveness, 6)
        y_trust    == y_second + secondary_height + 5
        has_location == m.locality > 0
        y_cta      == y_trust + (IF has_location THEN 5 + 4 ELSE 0)
        cta_width  == 32 + Scaled(m.commercial_intensity, 10)
        cta_x      == IF alignment = "left" THEN base_x
                      ELSE IF alignment = "right" THEN base_x + Pct(width - cta_width)
                      ELSE Pct(100 - cta_width) \div 2
        always     == [z \in {"primary", "divider", "secondary", "cta"} |->
                          IF z = "primary" THEN
                              Zone(base_x, Pct(y_primary), Pct(width), Pct(primary_height), 2)
                          ELSE IF z = "divider" THEN
                              Zone(IF alignment # "right" THEN base_x ELSE base_x + Pct(width - 20),
                                   Pct(y_divider), Pct(18 + Scaled(m.energy, 10)), Pct(1), 5)
                          ELSE IF z = "secondary" THEN
                              Zone(base_x, Pct(y_second), Pct(width - 5), Pct(secondary_height), 3)
                          ELSE Zone(cta_x, Pct(y_cta), Pct(cta_width), Pct(10), 4)]
        badge      == IF has_offer
                      THEN [z \in {"badge"} |->
                               Zone(IF alignment # "right" THEN base_x ELSE Pct(60),
                                    Pct(top_margin), Pct(30), Pct(8), 1)]
                      ELSE <<>>
        trust      == IF has_location
                      THEN [z \in {"trust"} |-> Zone(base_x, Pct(y_trust), Pct(width), Pct(5), 6)]
                      ELSE <<>>
    IN  always @@ badge @@ trust

\* the decorations, from the prompt's seed: x, y and size in percent, the
\* opacity in hundredths
Decoration(decor_seed) ==
    [x |-> (decor_seed % 80) - 10,
     y |-> ((decor_seed \div 256) % 70) - 10,
     size |-> 30 + (decor_seed % 40),
     opacity |-> 5 + (decor_seed % 10)]

\* generative_designer.compute_layout_from_prompt
ComputeLayoutFromPrompt(e, m) ==
    [alignment |-> DesignAlignment(e, m),
     zones |-> DesignZones(e, m),
     decorations |-> [i \in 1..(2 + (seed % 3)) |-> Decoration(seed + (i - 1) * 1337)],
     gradient_angle |-> 120 + (seed % 80)]

(***************************************************************************)
(* generative_designer.generate_copy_from_prompt.  The bullet of the banks  *)
(* is written "*" and the check mark of the trust lines "v".                *)
(***************************************************************************)
GenericTerms == {"Wellness Center", "Health Center", "Shopping Center", "Service Center",
                 "Business Center", "The", "And", "LLC", "Inc", "Pvt", "Ltd"}

\* the loop over proper_nouns[1:], from entry k on, with the brand so far
RECURSIVE PreferLonger(_, _, _)
PreferLonger(proper, k, brand) ==
    IF k > Len(proper) THEN brand
    ELSE IF proper[k] \notin GenericTerms /\ Len(proper[k]) > Len(brand) + 5
         THEN PreferLonger(proper, k + 1, proper[k])
    ELSE PreferLonger(proper, k + 1, brand)

\* brand_name: the first proper noun unless a later one is longer by more than 5
DesignBrandName(e) ==
    IF Len(e.proper_nouns) = 0 THEN "" ELSE PreferLonger(e.proper_nouns, 2, e.proper_nouns[1])

\* str.split() of a string whose words are separated by spaces
RECURSIVE SplitWords(_, _)
SplitWords(s, from) ==
    LET I == {i \in from..Len(s) : Ch(s, i) \notin SpaceSet}
    IN  IF I = {} THEN <<>>
        ELSE LET i == SetMin(I)
                 e == CHOOSE j \in i..Len(s) :
                          /\ \A k \in i..j : Ch(s, k) \notin SpaceSet
                          /\ (j = Len(s) \/ Ch(s, j + 1) \in SpaceSet)
             IN  <<SubSeq(s, i, e)>> \o SplitWords(s, e + 1)

Range(seq) == {seq[k] : k \in 1..Len(seq)}

\* bool(word_set & words)
InWordSet(e, words) == Range(e.all_significant_words) \cap words # {}

IsShop(e) == InWordSet(e, {"shop", "store", "mart", "outlet", "emporium", "bazaar", "showroom"})
IsRestaurant(e) ==
    InWordSet(e, {"cafe", "restaurant", "diner", "eatery", "kitchen", "bistro", "food", "coffee"})
IsGym(e) == InWordSet(e, {"gym", "fitness", "workout", "training", "strength", "crossfit"})
IsTech(e) == InWordSet(e, {"tech", "software", "app", "digital", "cloud", "data", "saas", "pro"})
IsFashion(e) ==
    InWordSet(e, {"fashion", "style", "clothing", "boutique", "wear", "apparel", "dresses"})
IsSpa(e) == InWordSet(e, {"spa", "wellness", "massage", "relaxation", "beauty", "salon"})
IsSale(e) == InWordSet(e, {"sale", "offer", "discount", "deal", "off", "clearance", "savings"})
IsLocal(e, m) ==
    \/ InWordSet(e, {"local", "nearby", "neighborhood", "community", "town", "city"})
    \/ m.locality > 0

NonProductWords == {"shop", "store", "mart", "local", "the", "indian", "chinese", "american",
                    "european", "new", "old", "big", "small", "best", "top", "selling"}

\* bank[brand_seed % len(bank)] if brand_seed else bank[0]
Pick(bank, brand_seed) == IF brand_seed # 0 THEN bank[(brand_seed % Len(bank)) + 1] ELSE bank[1]

\* the second line of the headline under a brand name, for a prompt that is
\* not a sale with numbers
BrandTagline(e, brand, brand_seed) ==
    IF IsShop(e) THEN
        LET product_words == SelectSeq(e.objects, LAMBDA w :
                                 /\ w \notin NonProductWords
                                 /\ w \notin Range(SplitWords(ToLower(brand), 1))
                                 /\ Len(w) > 3)
        IN  IF Len(product_words) > 0 THEN
                LET product == Capitalize(product_words[1])
                IN  Pick(<<"Your " \o product \o " Destination", product \o " You Can Trust",
                           "Best " \o product \o " Deals", product \o " Excellence",
                           "Where " \o product \o " Matters">>, brand_seed)
            ELSE Pick(<<"Quality You Can Trust", "Your Trusted Choice", "Value. Quality. Trust.",
                        "Service First">>, brand_seed)
    ELSE IF IsRestaurant(e) THEN
        IF "coffee" \in Range(e.all_significant_words) THEN
            Pick(<<"Brewed Fresh Daily", "Perfect Pour Every Time", "Your Daily Ritual",
                   "Crafted with Care">>, brand_seed)
        ELSE IF Len(SelectSeq(e.objects, LAMBDA w : w \notin {"cafe", "restaurant", "kitchen"})) > 0
        THEN Pick(<<"Taste the Difference", "Fresh. Authentic. Delicious.", "Where Flavor Lives",
                    "Crafted for You">>, brand_seed)
        ELSE "Flavors You'll Love"
    ELSE IF IsGym(e) THEN
        Pick(<<"Transform Your Body", "Strength Starts Here", "Push Your Limits",
               "Built Different">>, brand_seed)
    ELSE IF IsTech(e) THEN
        Pick(<<"Simplify Your Workflow", "Built for Performance", "Power Your Potential",
               "Smart. Fast. Reliable.">>, brand_seed)
    ELSE IF IsFashion(e) THEN
        Pick(<<"Redefine Your Look", "Style Without Limits", "Wear Your Story",
               "Elevate Your Wardrobe">>, brand_seed)
    ELSE IF IsSpa(e) THEN
        Pick(<<"Unwind & Rejuvenate", "Pure Relaxation", "Your Sanctuary Awaits",
               "Renew. Restore. Relax.">>, brand_seed)
    ELSE IF Len(e.descriptors) > 0 THEN Capitalize(e.descriptors[1]) \o " Excellence"
    ELSE ""

\* the sale branch of the headline: is_sale and numbers, under a brand name
SaleWithNumbers(e, brand) == brand # "" /\ IsSale(e) /\ Len(e.numbers) > 0

\* copy["headline"]
DesignHeadline(e, brand, brand_seed) ==
    LET words == e.all_significant_words
    IN  IF SaleWithNumbers(e, brand) THEN brand \o "\n" \o e.numbers[1][1] \o "% OFF"
        ELSE IF brand # "" THEN
            IF BrandTagline(e, brand, brand_seed) = "" THEN brand
            ELSE brand \o "\n" \o BrandTagline(e, brand, brand_seed)
        ELSE IF Len(words) >= 2 THEN
            ToUpper(words[1]) \o "\n"
                \o Join([k \in 1..(Min(Len(words), 3) - 1) |-> Capitalize(words[k + 1])], " ")
        ELSE IF Len(words) = 1 THEN ToUpper(words[1])
        ELSE "Welcome"

\* copy["subline"]
DesignSubline(e, m, headline, brand_seed) ==
    LET remaining_words == SelectSeq(e.objects, LAMBDA w : ~Contains(ToLower(headline), w))
        items == SubSeq(remaining_words, 1, Min(3, Len(remaining_words)))
    IN  IF IsLocal(e, m) /\ Len(e.locations) > 0 THEN
            "Proudly serving " \o e.locations[1] \o " and surrounding areas"
        ELSE IF IsLocal(e, m) THEN "Your neighborhood choice for quality and value"
        ELSE IF IsShop(e) /\ Len(remaining_words) > 0 THEN
            Pick(<<"Wide selection of " \o Join(items, ", ") \o " and more",
                   "Quality " \o items[1] \o " at honest prices",
                   "Your one-stop destination for " \o items[1]>>, brand_seed)
        ELSE IF IsRestaurant(e) THEN
            Pick(<<"Fresh ingredients, authentic flavors, memorable moments",
                   "Where every meal is an experience",
                   "Crafted with passion, served with love",
                   "Taste that keeps you coming back">>, brand_seed)
        ELSE IF IsGym(e) THEN
            Pick(<<"Expert trainers * Modern equipment * Results guaranteed",
                   "Your goals. Our mission. Real results.",
                   "No shortcuts. Just hard work that pays off.",
                   "Where champions are made">>, brand_seed)
        ELSE IF IsTech(e) THEN
            Pick(<<"Built for teams who demand more",
                   "Enterprise-grade reliability, startup-level agility",
                   "The tool your workflow deserves",
                   "Scale without compromise">>, brand_seed)
        ELSE IF IsFashion(e) THEN
            Pick(<<"Curated collections for every occasion",
                   "Express yourself through style",
                   "Where trends meet timeless elegance",
                   "Fashion that fits your life">>, brand_seed)
        ELSE IF IsSpa(e) THEN
            Pick(<<"Expert therapists * Serene ambiance * Pure relaxation",
                   "Where stress melts away",
                   "Indulge in ultimate self-care",
                   "Your escape from the everyday">>, brand_seed)
        ELSE IF IsSale(e) THEN "Limited time * Don't miss out"
        ELSE IF Len(remaining_words) > 0 THEN
            Capitalize(Join(SubSeq(remaining_words, 1, Min(4, Len(remaining_words))), " "))
        ELSE ""

\* the CTA derived from the first action word
ActionCta(action) ==
    IF EndsWith(action, "ing") THEN
        LET base == SubSeq(action, 1, Len(action) - 3)
        IN  IF EndsWith(base, "e") THEN Capitalize(base)
            ELSE IF Len(base) > 2 THEN Capitalize(base \o "e")
            ELSE Capitalize(action)
    ELSE Capitalize(action)

\* copy["cta"]
DesignCta(e, brand_seed) ==
    IF IsShop(e) THEN Pick(<<"Shop Now", "Browse Collection", "See Deals", "Explore">>, brand_seed)
    ELSE IF IsRestaurant(e) THEN
        Pick(<<"Order Now", "View Menu", "Reserve", "Get Yours">>, brand_seed)
    ELSE IF IsGym(e) THEN Pick(<<"Join Today", "Start Free", "Get Fit", "Try Free">>, brand_seed)
    ELSE IF IsTech(e) THEN
        Pick(<<"Get Started", "Try Free", "Start Now", "Learn More">>, brand_seed)
    ELSE IF IsFashion(e) THEN Pick(<<"Explore", "Shop Now", "Discover", "See More">>, brand_seed)
    ELSE IF IsSpa(e) THEN
        Pick(<<"Book Now", "Reserve", "Treat Yourself", "Book Today">>, brand_seed)
    ELSE IF IsSale(e) THEN "Grab Deal"
    ELSE IF Len(e.actions) > 0 THEN ActionCta(e.actions[1])
    ELSE "Learn More"

\* copy["badge"]: "SALE" from the sale branch of the headline, else the badge
\* block at the end of the function
DesignBadge(e, brand) ==
    IF SaleWithNumbers(e, brand) THEN "SALE"
    ELSE IF IsSale(e) /\ Len(e.numbers) > 0 THEN
        IF e.numbers[1][2] = "%" \/ \E k \in 1..Len(e.numbers) : e.numbers[k][2] = "off"
        THEN e.numbers[1][1] \o "% OFF"
        ELSE "SALE"
    ELSE ""

\* copy["trust"]
DesignTrust(e, m) ==
    IF IsLocal(e, m) THEN
        IF Len(e.locations) > 0 THEN "v Serving " \o e.locations[1] \o " since day one"
        ELSE "v Trusted by locals"
    ELSE IF IsShop(e) THEN "v Genuine products * Honest prices"
    ELSE IF IsTech(e) THEN "v Enterprise ready * 99.9% uptime"
    ELSE ""

\* generative_designer.generate_copy_from_prompt, with the hash of the brand
\* name as brand_hash; without a brand name brand_seed is the prompt's seed
GenerateCopyFromPrompt(e, m, brand_hash) ==
    LET brand      == DesignBrandName(e)
        brand_seed == IF brand # "" THEN brand_hash ELSE seed
        headline   == DesignHeadline(e, brand, brand_seed)
    IN  [headline |-> headline,
         subline |-> DesignSubline(e, m, headline, brand_seed),
         cta |-> DesignCta(e, brand_seed),
         trust |-> DesignTrust(e, m),
         badge |-> DesignBadge(e, brand)]

(***************************************************************************)
(* generative_designer.build_elements: type, id, position, size and         *)
(* content of the elements; the colours and the fonts are left out.         *)
(***************************************************************************)
ShapeElement(id, shape_type, x, y, width, height) ==
    [type |-> "shape", shape_type |-> shape_type, id |-> id,
     position |-> [x |-> x, y |-> y], size |-> [width |-> width, height |-> height]]

TextElement(id, x, y, width, height, content) ==
    [type |-> "text", id |-> id, content |-> content,
     position |-> [x |-> x, y |-> y], size |-> [width |-> width, height |-> height]]

DecorIds == <<"decor_0", "decor_1", "decor_2", "decor_3">>

\* the decorative circles
DecorElements(lay) ==
    [i \in 1..Len(lay.decorations) |->
        ShapeElement(DecorIds[i], "circle", Pct(lay.decorations[i].x), Pct(lay.decorations[i].y),
                     Pct(lay.decorations[i].size), Pct(lay.decorations[i].size))]

\* the badge block: the rectangle and the text, when there is a badge zone and
\* the badge of the copy is not empty
BadgeElements(lay, cp) ==
    IF "badge" \in DOMAIN lay.zones /\ cp.badge # "" THEN
        LET z == lay.zones["badge"]
        IN  <<ShapeElement("badge_bg", "rect", z.x, z.y, z.width, z.height),
              TextElement("badge_text", z.x, z.y + Pct(3) \div 2, z.width, z.height - Pct(3),
                          cp.badge)>>
    ELSE <<>>

\* the headline, the divider, the subline, the trust line and the CTA button
TextAndButtonElements(lay, cp) ==
    LET z == lay.zones
    IN  <<TextElement("headline", z["primary"].x, z["primary"].y, z["primary"].width,
                      z["primary"].height, cp.headline),
          ShapeElement("divider", "rect", z["divider"].x, z["divider"].y, z["divider"].width,
                       Pct(4) \div 5)>>
        \o (IF cp.subline # ""
            THEN <<TextElement("subline", z["secondary"].x, z["secondary"].y,
                               z["secondary"].width, z["secondary"].height, cp.subline)>>
            ELSE <<>>)
        \o (IF "trust" \in DOMAIN z /\ cp.trust # ""
            THEN <<TextElement("trust", z["trust"].x, z["trust"].y, z["trust"].width,
                               z["trust"].height, cp.trust)>>
            ELSE <<>>)
        \o <<ShapeElement("cta_bg", "rect", z["cta"].x, z["cta"].y, z["cta"].width,
                          z["cta"].height),
             TextElement("cta_text", z["cta"].x, z["cta"].y + Pct(5) \div 2, z["cta"].width,
                         Pct(5), ToUpper(cp.cta))>>

DotIds == <<"dot_0", "dot_1", "dot_2", "dot_3">>

\* the corner accents, by seed % 4
CornerAccentElements ==
    IF seed % 4 = 0 THEN
        <<ShapeElement("corner_tl_h", "rect", Pct(5), Pct(5), Pct(12), Pct(1) \div 2),
          ShapeElement("corner_tl_v", "rect", Pct(5), Pct(5), Pct(1) \div 2, Pct(12))>>
    ELSE IF seed % 4 = 1 THEN
        [i \in 1..4 |-> ShapeElement(DotIds[i], "circle", Pct(5 + (i - 1) * 3), Pct(5),
                                     Pct(3) \div 2, Pct(3) \div 2)]
    ELSE IF seed % 4 = 2 THEN
        <<ShapeElement("side_bar", "rect", 0, Pct(25), Pct(3) \div 2, Pct(50))>>
    ELSE <<>>

\* generative_designer.build_elements
BuildElements(lay, cp) ==
    DecorElements(lay) \o BadgeElements(lay, cp) \o TextAndButtonElements(lay, cp) \o CornerAccentElements

(***************************************************************************)
(* One call of generative_designer.generate_design.  Its locals are the     *)
(* variables of the same name; analysis holds the entities and the metrics  *)
(* (the "prompt_analysis" of its Blueprint) and seed is prompt_to_seed of    *)
(* the prompt.  The colours (step 3) are hashes of the prompt's words and    *)
(* are read by no zone, copy field or element position; they are left out.  *)
(***************************************************************************)
MaxDesignSeedIdx == 3
MaxBrandHash == 4

\* the values of prompt_to_seed(brand_name)
BrandHashes == 0..MaxBrandHash

DesignPrompts ==
    {"", "Zed sale 3 days", "Zed sale 20% off", "Zed 20% cashback", "20% off everything",
     "mega sale 2 items 50 off", "flat 500 rs discount", "sale 30 percent on shoes",
     "Ravi Mobiles shop in Pune", "Bright Bean Cafe", "fresh coffee for all",
     "gym training now!", "Acme cloud software", "Luna boutique dresses", "Aura spa massage",
     "Big Diwali Deal 3 days only at Sharma Electronics Store", "amazing natural soap"}

InitDesign ==
    /\ prompt \in DesignPrompts
    /\ platform \in Platforms
    /\ format \in {"post", "story", "banner"}
    /\ seed \in Seeds(MaxDesignSeedIdx)
    /\ hashKey = [p \in Procs |-> 0]
    /\ run = 0
    /\ pc = "idle"
    /\ analysis = Unset
    /\ direction = Unset
    /\ colors = Unset
    /\ layout = Unset
    /\ copy = Unset
    /\ elements = Unset
    /\ canvas = Unset
    /\ blueprints = <<>>
    /\ scenes = <<>>
    /\ PremiumOff

\* the canvas size, then steps 1 and 2: extract_all_entities, compute_prompt_metrics
DesignAnalyse ==
    /\ pc = "idle"
    /\ canvas' = DesignSize(format)
    /\ analysis' = [entities |-> ExtractAllEntities(prompt),
                    metrics |-> ComputePromptMetrics(prompt, ExtractAllEntities(prompt))]
    /\ pc' = "analysed"
    /\ UNCHANGED <<prompt, platform, format, seed, hashKey, run, direction, colors, layout,
                   copy, elements, blueprints>>
    /\ UNCHANGED <<scenes, premium>>

\* step 4: compute_layout_from_prompt
DesignLayout ==
    /\ pc = "analysed"
    /\ layout' = ComputeLayoutFromPrompt(analysis.entities, analysis.metrics)
    /\ pc' = "arranged"
    /\ UNCHANGED <<prompt, platform, format, seed, hashKey, run, analysis, direction, colors,
                   copy, elements, canvas, blueprints>>
    /\ UNCHANGED <<scenes, premium>>

\* step 5: generate_copy_from_prompt; the hash of a brand name that is the
\* whole prompt is the prompt's seed
DesignCopy ==
    /\ pc = "arranged"
    /\ \E brand_hash \in BrandHashes \cup {seed} :
           /\ DesignBrandName(analysis.entities) = prompt => brand_hash = seed
           /\ copy' = GenerateCopyFromPrompt(analysis.entities, analysis.metrics, brand_hash)
    /\ pc' = "worded"
    /\ UNCHANGED <<prompt, platform, format, seed, hashKey, run, analysis, direction, colors,
                   layout, elements, canvas, blueprints>>
    /\ UNCHANGED <<scenes, premium>>

\* step 6: build_elements
DesignBuild ==
    /\ pc = "worded"
    /\ elements' = BuildElements(layout, copy)
    /\ pc' = "built"
    /\ UNCHANGED <<prompt, platform, format, seed, hashKey, run, analysis, direction, colors,
                   layout, copy, canvas, blueprints>>
    /\ UNCHANGED <<scenes, premium>>

\* the Blueprint generate_design returns, without its colours
DesignBlueprint ==
    [metadata |-> [platform |-> platform, format |-> format,
                   width |-> canvas[1], height |-> canvas[2],
                   generator |-> "generative_designer_v1"],
     prompt_analysis |-> analysis,
     layout |-> layout,
     copy |-> copy,
     background |-> [type |-> "gradient", angle |-> layout.gradient_angle],
     elements |-> elements]

\* the assembly of the Blueprint and the return
DesignReturn ==
    /\ pc = "built"
    /\ blueprints' = Append(blueprints, DesignBlueprint)
    /\ run' = run + 1
    /\ pc' = "returned"
    /\ UNCHANGED <<prompt, platform, format, seed, hashKey, analysis, direction, colors,
                   layout, copy, elements, canvas>>
    /\ UNCHANGED <<scenes, premium>>

GenerateDesign ==
    \/ DesignAnalyse
    \/ DesignLayout
    \/ DesignCopy
    \/ DesignBuild
    \/ DesignReturn

NextDesign == GenerateDesign

SpecDesign == InitDesign /\ [][NextDesign]_vars

(***************************************************************************)
(* C29.  "N% OFF" in the copy of generate_copy_from_prompt.                 *)
(***************************************************************************)
\* the headline or the badge states a percentage discount
StatesPercentOff(cp) == Contains(cp.headline, "% OFF") \/ Contains(cp.badge, "% OFF")

\* the markers that make a number a percentage or a discount
PercentMarkers == {"%", "percent", "off"}

\* C29: the copy states "N% OFF", in the headline or in the badge, only when
\* the number N of the prompt carries a percent or off marker; a sale prompt
\* whose first number is a price, a count or a duration never yields "N% OFF".
PercentOnlyWithMarker ==
    pc \in {"worded", "built", "returned"} =>
        (StatesPercentOff(copy) =>
            /\ Len(analysis.entities.numbers) > 0
            /\ analysis.entities.numbers[1][2] \in PercentMarkers)

\* What the code ensures: "N% OFF" is stated only for a sale prompt with a
\* number, N is the first number of the prompt, and the badge states it only
\* when the first number has "%" or some number has "off" after it; the
\* headline under a brand name states it whatever follows the number.
PercentOffFromFirstNumber ==
    pc \in {"worded", "built", "returned"} =>
        LET e == analysis.entities
            np == e.numbers[1][1] \o "% OFF"
        IN  /\ StatesPercentOff(copy) => IsSale(e) /\ Len(e.numbers) > 0
            /\ Contains(copy.headline, "% OFF") =>
                   copy.headline = DesignBrandName(e) \o "\n" \o np /\ copy.badge = "SALE"
            /\ Contains(copy.badge, "% OFF") =>
                   /\ copy.badge = np
                   /\ e.numbers[1][2] = "%" \/ \E k \in 1..Len(e.numbers) : e.numbers[k][2] = "off"
            /\ SaleWithNumbers(e, DesignBrandName(e)) => copy.headline = DesignBrandName(e) \o "\n" \o np

\* a sale of three days under a brand name is announced as "3% OFF"
DurationAsPercent ==
    /\ pc = "returned"
    /\ prompt = "Zed sale 3 days"
    /\ analysis.entities.numbers = << <<"3", "">> >>
    /\ copy.headline = "Zed\n3% OFF"

(***************************************************************************)
(* C30.  The badge zone and the badge of the copy.                          *)
(***************************************************************************)
\* the ids of the elements built
ElementIds == {elements[i].id : i \in 1..Len(elements)}

\* C30: the layout allocates a badge zone exactly when the copy has a badge
\* that is not empty, so every such badge is rendered as the badge rectangle
\* and the badge text, and no badge zone is reserved without content.
BadgeZoneMatchesCopy ==
    /\ pc \in {"worded", "built", "returned"} =>
           ("badge" \in DOMAIN layout.zones <=> copy.badge # "")
    /\ pc \in {"built", "returned"} =>
           (copy.badge # "" => {"badge_bg", "badge_text"} \subseteq ElementIds)

\* What decides each side: the zone is there when some number has "%" or
\* "off" after it, the badge when the prompt has a sale word and a number; the
\* two elements are built when both hold, the text with the badge as content.
BadgeZoneAndCopyApart ==
    /\ pc \in {"worded", "built", "returned"} =>
           /\ "badge" \in DOMAIN layout.zones <=> HasPercentage(analysis.entities.numbers)
           /\ copy.badge # "" <=>
                  IsSale(analysis.entities) /\ Len(analysis.entities.numbers) > 0
    /\ pc \in {"built", "returned"} =>
           /\ "badge_bg" \in ElementIds <=> "badge_text" \in ElementIds
           /\ "badge_text" \in ElementIds <=>
                  "badge" \in DOMAIN layout.zones /\ copy.badge # ""
           /\ \A i \in 1..Len(elements) :
                  elements[i].id = "badge_text" => elements[i].content = copy.badge

\* a badge without a zone: "SALE" is in the copy and no badge element is built
BadgeNotRendered ==
    /\ pc = "returned"
    /\ copy.badge = "SALE"
    /\ "badge" \notin DOMAIN layout.zones
    /\ "badge_text" \notin ElementIds

\* a zone without a badge: the zone is reserved and the copy has no badge
BadgeZoneEmpty ==
    /\ pc = "returned"
    /\ copy.badge = ""
    /\ "badge" \in DOMAIN layout.zones
    /\ layout.zones["primary"].y = layout.zones["badge"].y + Pct(8 + 3)


=============================================================================
